---------------------------- MODULE Spec2Model ----------------------------
(***************************************************************************)
(* A model of the 3D car showroom: the collision world and its penetration *)
(* resolver, the model transform cache, the render command queue, and the  *)
(* application's frame loop that drives them.                              *)
(*                                                                         *)
(* Numbers.  The program computes in float.  The model computes in exact   *)
(* fixed point: a length is an integer number of 1/6000 world units, a     *)
(* time an integer number of 1/600 s, a sine or cosine an integer number   *)
(* of fifths.  Every program constant used below (0.001, 1/60, 0.1, 5.0,   *)
(* 0.5, the showroom and car sizes) is an integer in these units.          *)
(***************************************************************************)
EXTENDS Integers, Sequences, FiniteSets, TLC

\* One world unit (a glm float 1.0f of length), in model length units.
Unit == 6 * 1000

\* One second, in model time units.
Second == 6 * 100

\* ------------------------------------------------------------------------
\* Bounds of the model
\* ------------------------------------------------------------------------

\* Most static boxes added to a collision world in the collision specification.
MaxStatic == 2

\* ------------------------------------------------------------------------
\* Vectors (glm::vec3) as triples
\* ------------------------------------------------------------------------

Axes == 1..3

Vec(x, y, z) == <<x, y, z>>

Zero3 == <<0, 0, 0>>

VAdd(a, b) == <<a[1] + b[1], a[2] + b[2], a[3] + b[3]>>

VSub(a, b) == <<a[1] - b[1], a[2] - b[2], a[3] - b[3]>>

\* vec * scalar
VScale(a, k) == <<a[1] * k, a[2] * k, a[3] * k>>

Min2(a, b) == IF a < b THEN a ELSE b

Max2(a, b) == IF a > b THEN a ELSE b

\* ------------------------------------------------------------------------
\* Collision primitives
\* ------------------------------------------------------------------------

\* struct AABB { vec3 min; vec3 max; }
AABB(lo, hi) == [min |-> lo, max |-> hi]

\* AABB::getCenter is (min + max) * 0.5; kept doubled so that it stays an
\* integer: the code only ever compares two centres.
getCenter2(box) == VAdd(box.min, box.max)

\* A box moved by a displacement (testBox.min += push; testBox.max += push).
Translated(box, d) == AABB(VAdd(box.min, d), VAdd(box.max, d))

\* CollisionResult(): hit(false), point(0), normal(0), penetration(0).
\* The contact point is kept doubled, like the centre.
NoCollision == [hit |-> FALSE, point2 |-> Zero3, normal |-> Zero3, penetration |-> 0]

\* Collision::testAABBvsAABB: no separation on any axis.
testAABBvsAABB(a, b) ==
    \A i \in Axes : ~(a.max[i] < b.min[i] \/ a.min[i] > b.max[i])

\* The overlap of a and b along one axis.
Overlap(a, b, i) == Min2(a.max[i] - b.min[i], b.max[i] - a.min[i])

\* The unit vector along axis i, with sign s.
AxisNormal(i, s) ==
    <<IF i = 1 THEN s ELSE 0, IF i = 2 THEN s ELSE 0, IF i = 3 THEN s ELSE 0>>

\* A mutation of the chain: Z is asked first, then Y, then X.
MinAxis_zFirst(a, b) ==
    LET ox == Overlap(a, b, 1)
        oy == Overlap(a, b, 2)
        oz == Overlap(a, b, 3)
    IN  IF oz <= oy /\ oz <= ox THEN 3
        ELSE IF oy <= ox /\ oy <= oz THEN 2
        ELSE 1

\* The axis the if / else-if / else chain picks: X when its overlap is no
\* larger than the two others, else Y when its overlap is no larger, else Z.
MinAxis(a, b) ==
    LET ox == Overlap(a, b, 1)
        oy == Overlap(a, b, 2)
        oz == Overlap(a, b, 3)
    IN  IF ox <= oy /\ ox <= oz THEN 1
        ELSE IF oy <= ox /\ oy <= oz THEN 2
        ELSE 3

\* Collision::testAABBvsAABBResponse
testAABBvsAABBResponse(a, b) ==
    IF ~testAABBvsAABB(a, b) THEN NoCollision
    ELSE LET i == MinAxis(a, b)
             s == IF getCenter2(a)[i] < getCenter2(b)[i] THEN -1 ELSE 1
         IN  [hit         |-> TRUE,
              point2      |-> <<Max2(a.min[1], b.min[1]) + Min2(a.max[1], b.max[1]),
                                Max2(a.min[2], b.min[2]) + Min2(a.max[2], b.max[2]),
                                Max2(a.min[3], b.min[3]) + Min2(a.max[3], b.max[3])>>,
              normal      |-> AxisNormal(i, s),
              penetration |-> Overlap(a, b, i)]

\* One pass of the loop of testAgainstStatic over boxes[k..]: the result
\* replaces the deepest so far only when it is strictly deeper.
RECURSIVE DeepestFrom(_, _, _, _)
DeepestFrom(boxes, k, movingBox, deepest) ==
    IF k > Len(boxes) THEN deepest
    ELSE LET result == testAABBvsAABBResponse(movingBox, boxes[k])
         IN  DeepestFrom(boxes, k + 1, movingBox,
                         IF result.hit /\ result.penetration > deepest.penetration
                         THEN result ELSE deepest)

\* A mutation of testAgainstStatic: the loop keeps the last penetrated box
\* instead of the deepest.
RECURSIVE LastFrom(_, _, _, _)
LastFrom(boxes, k, movingBox, deepest) ==
    IF k > Len(boxes) THEN deepest
    ELSE LET result == testAABBvsAABBResponse(movingBox, boxes[k])
         IN  LastFrom(boxes, k + 1, movingBox,
                      IF result.hit /\ result.penetration > 0
                      THEN result ELSE deepest)

testAgainstStatic_last(boxes, movingBox) == LastFrom(boxes, 1, movingBox, NoCollision)

\* CollisionWorld::testAgainstStatic
testAgainstStatic(boxes, movingBox) == DeepestFrom(boxes, 1, movingBox, NoCollision)

\* A mutation of the push margin: the box is pushed by the penetration alone.
NoEpsilon == 0 * Unit

\* The 0.001f added to every push of resolveCollisions.
Epsilon == Unit \div 1000

\* A mutation of the iteration limit: one more pass.
MoreIterations == 4 + 1

\* The iteration limit of resolveCollisions.
MaxIterations == 4

\* The locals of resolveCollisions when its loop ends, and the pushes the
\* loop applied, in order.
Resolved(resolvedPos, testBox) == [pos |-> resolvedPos, testBox |-> testBox, pushes |-> <<>>]

\* The loop of resolveCollisions from iteration `iteration` on.
RECURSIVE ResolveFrom(_, _, _, _, _)
ResolveFrom(boxes, testBox, resolvedPos, iteration, limit) ==
    IF iteration >= limit THEN Resolved(resolvedPos, testBox)
    ELSE LET result == testAgainstStatic(boxes, testBox)
         IN  IF ~result.hit THEN Resolved(resolvedPos, testBox)
             ELSE LET push == VScale(result.normal, result.penetration + Epsilon)
                      rest == ResolveFrom(boxes, Translated(testBox, push),
                                          VAdd(resolvedPos, push), iteration + 1, limit)
                  IN  [rest EXCEPT !.pushes = <<push>> \o @]

\* A mutation of resolveCollisions: a single test-and-push pass.
resolveCollisions_once(boxes, movingBox, currentPos) ==
    ResolveFrom(boxes, movingBox, currentPos, 0, 1).pos

\* CollisionWorld::resolveCollisions
resolveCollisions(boxes, movingBox, currentPos) ==
    ResolveFrom(boxes, movingBox, currentPos, 0, MaxIterations).pos


\* ------------------------------------------------------------------------
\* Angles, matrices and the model transform
\* ------------------------------------------------------------------------

\* An angle in degrees is one of eight angles whose sine and cosine are exact
\* fifths: 0, 36.87, 90, 143.13, 180, 216.87, 270 and 323.13 degrees,
\* numbered 0..7 (angles that differ by 360 degrees have one number).
Angles == 0..7

\* 5 * sin(angle)
Sin5(a) == <<0, 3, 5, 3, 0, -3, -5, -3>>[(a % 8) + 1]

\* 5 * cos(angle)
Cos5(a) == <<5, 4, 0, -4, -5, -4, 0, 4>>[(a % 8) + 1]

Mat3(r1, r2, r3) == <<r1, r2, r3>>

\* Row i of A times column j of B.
Dot3(A, B, i, j) == A[i][1] * B[1][j] + A[i][2] * B[2][j] + A[i][3] * B[3][j]

Mat3Mul(A, B) ==
    <<<<Dot3(A, B, 1, 1), Dot3(A, B, 1, 2), Dot3(A, B, 1, 3)>>,
      <<Dot3(A, B, 2, 1), Dot3(A, B, 2, 2), Dot3(A, B, 2, 3)>>,
      <<Dot3(A, B, 3, 1), Dot3(A, B, 3, 2), Dot3(A, B, 3, 3)>>>>

\* The matrix A times the column vector v.
Mat3Apply(A, v) ==
    <<A[1][1] * v[1] + A[1][2] * v[2] + A[1][3] * v[3],
      A[2][1] * v[1] + A[2][2] * v[2] + A[2][3] * v[3],
      A[3][1] * v[1] + A[3][2] * v[2] + A[3][3] * v[3]>>

\* Every entry of A divided by k.
Mat3Div(A, k) ==
    <<<<A[1][1] \div k, A[1][2] \div k, A[1][3] \div k>>,
      <<A[2][1] \div k, A[2][2] \div k, A[2][3] \div k>>,
      <<A[3][1] \div k, A[3][2] \div k, A[3][3] \div k>>>>

\* glm::rotate about (1,0,0), (0,1,0) and (0,0,1), each in fifths.
RotX5(a) == Mat3(<<5, 0, 0>>, <<0, Cos5(a), -Sin5(a)>>, <<0, Sin5(a), Cos5(a)>>)

RotY5(a) == Mat3(<<Cos5(a), 0, Sin5(a)>>, <<0, 5, 0>>, <<-Sin5(a), 0, Cos5(a)>>)

RotZ5(a) == Mat3(<<Cos5(a), -Sin5(a), 0>>, <<Sin5(a), Cos5(a), 0>>, <<0, 0, 5>>)

\* glm::scale
ScaleMat(s) == Mat3(<<s[1], 0, 0>>, <<0, s[2], 0>>, <<0, 0, s[3]>>)

\* The linear part of a matrix is kept in 1/125ths (three rotations in fifths).
LinOne == 5 * 5 * 5

\* A glm::mat4 with last row (0,0,0,1): its upper-left 3x3 in 1/125ths and
\* its translation column in length units.
Mat4(l, t) == [l |-> l, t |-> t]

\* glm::mat4(1.0f)
Identity4 == Mat4(ScaleMat(<<LinOne, LinOne, LinOne>>), Zero3)

\* A pure translation, glm::translate(glm::mat4(1.0f), v).
Translation4(v) == Mat4(ScaleMat(<<LinOne, LinOne, LinOne>>), v)

\* parent * child.  Exact whenever the products are multiples of 125, as they
\* are for every parent used here (identity and translations).
Mat4Mul(A, B) ==
    Mat4(Mat3Div(Mat3Mul(A.l, B.l), LinOne),
         VAdd(Mat3Apply(Mat3Div(A.l, LinOne), B.t), A.t))

\* A mutation of the composition: the rotations are applied X, then Y, then Z.
ComposeModelMatrix_xyz(position, rotation, scale) ==
    Mat4(Mat3Mul(Mat3Mul(Mat3Mul(RotX5(rotation[1]), RotY5(rotation[2])),
                         RotZ5(rotation[3])), ScaleMat(scale)),
         position)

\* The matrix Model::updateModelMatrix builds:
\* Translation * RotationZ * RotationY * RotationX * Scale.
ComposeModelMatrix(position, rotation, scale) ==
    Mat4(Mat3Mul(Mat3Mul(Mat3Mul(RotZ5(rotation[3]), RotY5(rotation[2])),
                         RotX5(rotation[1])), ScaleMat(scale)),
         position)

\* Material::opacity of a fully opaque material (1.0f), in hundredths.
OpacityOne == 100

\* Material::isTransparent with the bound included.
isTransparent_inclusive(opacity) == opacity <= OpacityOne

\* Material::isTransparent
isTransparent(opacity) == opacity < OpacityOne

\* Model::Model(): at the origin, unrotated, unit scale, visible, with an
\* identity matrix marked dirty and the default (opaque) material.  A
\* CarModel adds its heading and current speed.
NewModel ==
    [m_position         |-> Zero3,
     m_rotation         |-> <<0, 0, 0>>,
     m_scale            |-> <<1, 1, 1>>,
     m_visible          |-> TRUE,
     opacity            |-> OpacityOne,
     m_modelMatrix      |-> Identity4,
     m_modelMatrixDirty |-> TRUE,
     m_heading          |-> 0,
     m_currentSpeed     |-> 0]

\* Model::setPosition
setPosition(m, position) ==
    [m EXCEPT !.m_position = position, !.m_modelMatrixDirty = TRUE]

\* Model::setRotation
setRotation(m, rotation) ==
    [m EXCEPT !.m_rotation = rotation, !.m_modelMatrixDirty = TRUE]

\* Model::setScale
setScale(m, scale) ==
    [m EXCEPT !.m_scale = scale, !.m_modelMatrixDirty = TRUE]

\* Model::updateModelMatrix
updateModelMatrix(m) ==
    [m EXCEPT !.m_modelMatrix = ComposeModelMatrix(m.m_position, m.m_rotation, m.m_scale),
              !.m_modelMatrixDirty = FALSE]

\* Model::getModelMatrix: the model after the call (the cache is mutable) ...
afterGetModelMatrix(m) == IF m.m_modelMatrixDirty THEN updateModelMatrix(m) ELSE m

\* ... and the matrix the call returns.
getModelMatrix(m) == afterGetModelMatrix(m).m_modelMatrix

\* The displacement direction * amount * deltaTime of CarModel::move:
\* direction = (sin(heading), 0, cos(heading)), amount in world units per
\* second, deltaTime in time units.
MoveDelta(heading, amount, deltaTime) ==
    LET k == (amount * deltaTime * Unit) \div (5 * Second)
    IN  Vec(Sin5(heading) * k, 0, Cos5(heading) * k)

\* A mutation of CarModel::move: the cached matrix is not marked dirty.
move_clean(m, amount, deltaTime) ==
    [m EXCEPT !.m_currentSpeed = amount,
              !.m_position = VAdd(m.m_position, MoveDelta(m.m_heading, amount, deltaTime))]

\* CarModel::move
move(m, amount, deltaTime) ==
    [m EXCEPT !.m_currentSpeed = amount,
              !.m_position = VAdd(m.m_position, MoveDelta(m.m_heading, amount, deltaTime)),
              !.m_modelMatrixDirty = TRUE]

\* CarModel::turn: heading += angle * deltaTime, for the products that take
\* the heading `steps` angles further round the table of angles.
turn(m, steps) ==
    [m EXCEPT !.m_heading = (m.m_heading + steps) % 8,
              !.m_rotation = [m.m_rotation EXCEPT ![2] = (m.m_heading + steps) % 8],
              !.m_modelMatrixDirty = TRUE]

\* ------------------------------------------------------------------------
\* Render commands
\* ------------------------------------------------------------------------

\* The largest r with r * r <= n, by bisection between lo and hi.
RECURSIVE ISqrtBetween(_, _, _)
ISqrtBetween(n, lo, hi) ==
    IF lo >= hi THEN lo
    ELSE LET mid == (lo + hi + 1) \div 2
         IN  IF mid * mid <= n THEN ISqrtBetween(n, mid, hi)
             ELSE ISqrtBetween(n, lo, mid - 1)

\* glm::length: the square root of the sum of squares, rounded down to a
\* whole number of length units.
Length(v) == ISqrtBetween(v[1] * v[1] + v[2] * v[2] + v[3] * v[3], 0, 8 * Unit)

\* The value of a float that was never initialised.  The only such field,
\* the distance of an opaque command, is never read.
Indeterminate == 0 - 1

\* A mutation of the comparator of the sort: nearest first.
Before_nearest(a, b) == a.distanceToCamera < b.distanceToCamera

\* The comparator of sortTransparentCommands: a goes before b.
Before(a, b) == a.distanceToCamera > b.distanceToCamera

\* The outcomes std::sort may leave in place of cmds: its rearrangements in
\* which no command comes after one it has to go before.  std::sort is not
\* stable: the order of commands neither of which goes before the other is
\* any.
SortOutcomes(cmds) ==
    {[i \in 1..Len(cmds) |-> cmds[f[i]]] : f \in
        {g \in Permutations(1..Len(cmds)) :
            \A i, j \in 1..Len(cmds) : i < j => ~Before(cmds[g[j]], cmds[g[i]])}}

\* The RenderCommand that Renderer::submit builds.  modelMatrixAtSubmit is
\* no field of the struct: it records the model's own matrix as of the
\* submission, for the properties that speak of it.
NewCommand(id, m, transform, cameraPosition) ==
    [model               |-> id,
     transform           |-> transform,
     transparent         |-> isTransparent(m.opacity),
     distanceToCamera    |-> IF isTransparent(m.opacity)
                             THEN Length(VSub(cameraPosition, transform.t))
                             ELSE Indeterminate,
     modelMatrixAtSubmit |-> ComposeModelMatrix(m.m_position, m.m_rotation, m.m_scale)]

\* The draw that Renderer::executeCommand issues for cmd through
\* Model::draw(shader, parentTransform): the "model" uniform is the
\* command's transform times the model's matrix as of the draw.
DrawOf(cmd, ms, depthWrite, blend) ==
    [op         |-> "draw",
     cmd        |-> cmd,
     matrix     |-> Mat4Mul(cmd.transform, getModelMatrix(ms[cmd.model])),
     depthWrite |-> depthWrite,
     blend      |-> blend]

\* The draws of a command list in order; executeCommand skips the commands
\* whose model is not visible.
RECURSIVE DrawsOf(_, _, _, _)
DrawsOf(cmds, ms, depthWrite, blend) ==
    IF cmds = <<>> THEN <<>>
    ELSE (IF ms[Head(cmds).model].m_visible
          THEN <<DrawOf(Head(cmds), ms, depthWrite, blend)>>
          ELSE <<>>) \o DrawsOf(Tail(cmds), ms, depthWrite, blend)

\* A shader or GL call that is no draw.
GLCall(name) == [op |-> name]

\* glDepthMask(flag)
GLDepthMask(flag) == [op |-> "glDepthMask", flag |-> flag]

\* glEnable(GL_BLEND) / glDisable(GL_BLEND)
GLBlend(flag) == [op |-> IF flag THEN "glEnable" ELSE "glDisable", cap |-> "GL_BLEND"]

\* nullptr in Renderer::m_directionalLight
NullLight == "nullptr"

\* The uniforms of a light slot that is switched off
SlotDisabled == "disabled"

\* Renderer::MAX_POINT_LIGHTS
MAX_POINT_LIGHTS == 4

\* Renderer::MAX_SPOT_LIGHTS
MAX_SPOT_LIGHTS == 2

\* A light past the cap is added all the same
addLight_uncapped(lights, light, cap) == Append(lights, light)

\* Renderer::addPointLight / addSpotLight: push_back below the cap, and
\* nothing otherwise
addLight(lights, light, cap) ==
    IF Len(lights) < cap THEN Append(lights, light) ELSE lights

\* The vector is left as it was
clear_kept(list) == list

\* std::vector::clear
clear(list) == <<>>

\* The light uniforms of slots 0 .. cap - 1: a light each for the lights
\* held, switched off for the slots past them
LightSlots(lights, cap) ==
    [i \in 1..(IF Len(lights) > cap THEN Len(lights) ELSE cap) |->
        IF i <= Len(lights) THEN lights[i] ELSE SlotDisabled]

\* Renderer::applyLighting: the uniforms it sets
applyLighting(directionalLight, pointLights, spotLights) ==
    [op             |-> "applyLighting",
     dirLight       |-> IF directionalLight # NullLight THEN directionalLight ELSE SlotDisabled,
     numPointLights |-> Len(pointLights),
     pointLights    |-> LightSlots(pointLights, MAX_POINT_LIGHTS),
     numSpotLights  |-> Len(spotLights),
     spotLights     |-> LightSlots(spotLights, MAX_SPOT_LIGHTS)]

\* A mutation of endFrame: the transparent pass is issued before the opaque one.
EndFrameLog_transparentFirst(opaque, sorted, ms, lighting) ==
    <<GLCall("use"), GLCall("setCamera"), lighting>>
        \o <<GLDepthMask(FALSE), GLBlend(TRUE), GLCall("glBlendFunc")>>
        \o DrawsOf(sorted, ms, FALSE, TRUE)
        \o <<GLDepthMask(TRUE), GLBlend(FALSE)>>
        \o DrawsOf(opaque, ms, TRUE, FALSE)
        \o <<GLDepthMask(TRUE), GLBlend(FALSE)>>

\* A mutation of endFrame: the GL state of the transparent pass is left on.
EndFrameLog_noRestore(opaque, sorted, ms, lighting) ==
    <<GLCall("use"), GLCall("setCamera"), lighting>>
        \o <<GLDepthMask(TRUE), GLBlend(FALSE)>>
        \o DrawsOf(opaque, ms, TRUE, FALSE)
        \o <<GLDepthMask(FALSE), GLBlend(TRUE), GLCall("glBlendFunc")>>
        \o DrawsOf(sorted, ms, FALSE, TRUE)

\* The calls Renderer::endFrame issues, with the transparent list as sorted
\* and the uniforms that applyLighting sets.
EndFrameLog(opaque, sorted, ms, lighting) ==
    <<GLCall("use"), GLCall("setCamera"), lighting>>
        \o <<GLDepthMask(TRUE), GLBlend(FALSE)>>
        \o DrawsOf(opaque, ms, TRUE, FALSE)
        \o <<GLDepthMask(FALSE), GLBlend(TRUE), GLCall("glBlendFunc")>>
        \o DrawsOf(sorted, ms, FALSE, TRUE)
        \o <<GLDepthMask(TRUE), GLBlend(FALSE)>>

\* The models after the draws of cmds: each drawn model's getter ran.
AfterDraws(ms, cmds) ==
    [id \in DOMAIN ms |->
        IF \E k \in 1..Len(cmds) : cmds[k].model = id /\ ms[id].m_visible
        THEN afterGetModelMatrix(ms[id]) ELSE ms[id]]

\* ------------------------------------------------------------------------
\* State
\* ------------------------------------------------------------------------

VARIABLES
    m_staticBoxes,  \* CollisionWorld::m_staticBoxes, in insertion order
    call,           \* the last call made on the collision world, with its arguments
    ret,            \* what that call returned
    models,         \* the Model objects, by name: their transform, cache and material
    modelCall,      \* the last call made on a model, and the matrix a getter returned
    nCalls,         \* the number of calls made on the models so far
    m_cameraPosition,       \* Renderer::m_cameraPosition
    m_opaqueCommands,       \* Renderer::m_opaqueCommands
    m_transparentCommands,  \* Renderer::m_transparentCommands
    glLog,          \* the shader and GL calls issued by the last Renderer call, in order
    m_directionalLight,     \* Renderer::m_directionalLight: the light pointed to, or NullLight
    m_pointLights,          \* Renderer::m_pointLights
    m_spotLights,           \* Renderer::m_spotLights
    handed,         \* how many point lights, spot lights and commands the renderer was
                    \* handed since the last beginFrame, and how many of the lights
                    \* before the last clearLights
    m_physicsAccumulator,   \* Application::m_physicsAccumulator
    ticks,          \* how often the fixed-timestep loop ran its body in the current frame
    m_deltaTime,            \* Application::m_deltaTime
    pc,             \* where Application::run stands in its loop body
    frame,          \* the number of frames Application::run has completed
    anim,           \* an Animation object: its members
    animPc,         \* "idle", or "callback" while update runs the completion callback
    animCall,       \* the last call made on the animation, and what update returned
    invoked,        \* how often the completion callback ran since the animation (re)started
    cam,            \* a Camera object: its members
    camCall,        \* the last call made on the camera, with its arguments
    nCamCalls,      \* the number of calls made on the camera so far
    m_animations,   \* AnimationController::m_animations
    issued,         \* the animations addAnimation returned an id for since the last clear, by id
    ctrlCall,       \* the last call made on the controller, and what it returned
    m_keyStates,            \* Input::m_keyStates
    m_previousKeyStates,    \* Input::m_previousKeyStates
    inputPc,        \* where the frame loop stands: "update", "process" or "poll"
    sincePress      \* by key: in how many frames input was processed since the key's press event

collisionVars == <<m_staticBoxes, call, ret>>

modelVars == <<models, modelCall, nCalls>>

lightVars == <<m_directionalLight, m_pointLights, m_spotLights, handed>>

rendererVars == <<m_cameraPosition, m_opaqueCommands, m_transparentCommands, glLog, lightVars>>

appVars == <<m_physicsAccumulator, ticks, m_deltaTime, pc, frame>>

animVars == <<anim, animPc, animCall, invoked>>

cameraVars == <<cam, camCall, nCamCalls>>

controllerVars == <<m_animations, issued, ctrlCall>>

inputVars == <<m_keyStates, m_previousKeyStates, inputPc, sincePress>>

vars == <<m_staticBoxes, call, ret, models, modelCall, nCalls,
          m_cameraPosition, m_opaqueCommands, m_transparentCommands, glLog,
          m_directionalLight, m_pointLights, m_spotLights, handed,
          m_physicsAccumulator, ticks, m_deltaTime, pc, frame,
          anim, animPc, animCall, invoked, cam, camCall, nCamCalls,
          m_animations, issued, ctrlCall,
          m_keyStates, m_previousKeyStates, inputPc, sincePress>>

\* ------------------------------------------------------------------------
\* The collision world on its own: boxes are added, then tested against
\* ------------------------------------------------------------------------

\* The static boxes of the collision specification: a cube, boxes that
\* partly overlap it or are shifted against it, and one that leaves, with
\* the box at x in [2, 6], a gap as wide as the widest moving box.
Walls ==
    {AABB(Vec(x[1] * Unit, y[1] * Unit, 0), Vec(x[2] * Unit, y[2] * Unit, 4 * Unit)) :
        x \in {<<0, 4>>, <<3, 5>>, <<2, 6>>}, y \in {<<0, 4>>, <<1, 5>>}}
    \cup {AABB(Vec(0 - 4 * Unit, 0, 0), Vec(0 - 2 * Unit, 4 * Unit, 4 * Unit))}

\* The moving boxes: nested in a wall, equal to it, partly overlapping,
\* touching, and of zero width lying on a wall's face.
Boxes ==
    {AABB(Vec(x[1] * Unit, y[1] * Unit, z[1] * Unit),
          Vec(x[2] * Unit, y[2] * Unit, z[2] * Unit)) :
        x \in {<<1, 3>>, <<2, 4>>, <<0, 4>>, <<0, 0>>},
        y \in {<<0, 4>>, <<1, 3>>},
        z \in {<<0, 4>>, <<1, 2>>}}

NoCall == [op |-> "none", box |-> AABB(Zero3, Zero3), pos |-> Zero3]

NoRet == [result |-> NoCollision, pos |-> Zero3, index |-> 0, hit |-> FALSE, hitT |-> 0,
          testBox |-> AABB(Zero3, Zero3), pushes |-> <<>>]

NoModelCall == [op |-> "none", id |-> "none", matrix |-> Identity4, recomputed |-> FALSE]

NoneHanded == [point |-> 0, spot |-> 0, pointCleared |-> 0, spotCleared |-> 0, commands |-> 0]

\* The state of the parts a specification leaves alone.
IdleCollision == m_staticBoxes = <<>> /\ call = NoCall /\ ret = NoRet

IdleModels == models = <<>> /\ modelCall = NoModelCall /\ nCalls = 0

NoAnimCall == [op |-> "none", arg |-> 0, ret |-> 0, seq |-> 0]

IdleAnim == anim = <<>> /\ animPc = "idle" /\ animCall = NoAnimCall /\ invoked = 0

NoCamCall == [op |-> "none"]

IdleCamera == cam = <<>> /\ camCall = NoCamCall /\ nCamCalls = 0

IdleApp ==
    /\ m_physicsAccumulator = 0
    /\ ticks = 0
    /\ m_deltaTime = 0
    /\ pc = "idle"
    /\ frame = 0

NoCtrlCall == [op |-> "none"]

IdleController == m_animations = <<>> /\ issued = <<>> /\ ctrlCall = NoCtrlCall

IdleInput ==
    /\ m_keyStates = <<>>
    /\ m_previousKeyStates = <<>>
    /\ inputPc = "idle"
    /\ sincePress = <<>>

\* m_directionalLight(nullptr), and the light lists empty
NoLights ==
    /\ m_directionalLight = NullLight
    /\ m_pointLights = <<>>
    /\ m_spotLights = <<>>
    /\ handed = NoneHanded

IdleRenderer ==
    /\ m_cameraPosition = Zero3
    /\ m_opaqueCommands = <<>>
    /\ m_transparentCommands = <<>>
    /\ glLog = <<>>
    /\ NoLights

InitCollisionWorld ==
    /\ m_staticBoxes = <<>>
    /\ call = NoCall
    /\ ret = NoRet
    /\ IdleModels
    /\ IdleRenderer
    /\ IdleApp
    /\ IdleController
    /\ IdleInput
    /\ IdleAnim
    /\ IdleCamera

\* CollisionWorld::addStaticAABB (the returned index counts from 0)
addStaticAABB(box) ==
    /\ Len(m_staticBoxes) < MaxStatic
    /\ m_staticBoxes' = Append(m_staticBoxes, box)
    /\ call' = [op |-> "add", box |-> box, pos |-> Zero3]
    /\ ret' = [NoRet EXCEPT !.index = Len(m_staticBoxes') - 1]
    /\ UNCHANGED <<modelVars, rendererVars, appVars, controllerVars, inputVars, animVars, cameraVars>>

\* A call of CollisionWorld::testAgainstStatic
TestAgainstStatic(box) ==
    /\ call' = [op |-> "test", box |-> box, pos |-> Zero3]
    /\ ret' = [NoRet EXCEPT !.result = testAgainstStatic(m_staticBoxes, box)]
    /\ UNCHANGED <<m_staticBoxes, modelVars, rendererVars, appVars, controllerVars, inputVars, animVars, cameraVars>>

\* A call of CollisionWorld::resolveCollisions
ResolveCollisions(box, currentPos) ==
    /\ call' = [op |-> "resolve", box |-> box, pos |-> currentPos]
    /\ \E loop \in {ResolveFrom(m_staticBoxes, box, currentPos, 0, MaxIterations)} :
          ret' = [NoRet EXCEPT !.pos = resolveCollisions(m_staticBoxes, box, currentPos),
                               !.testBox = loop.testBox,
                               !.pushes = loop.pushes]
    /\ UNCHANGED <<m_staticBoxes, modelVars, rendererVars, appVars, controllerVars, inputVars, animVars, cameraVars>>

\* CollisionWorld::clear
ClearWorld ==
    /\ m_staticBoxes # <<>>
    /\ m_staticBoxes' = <<>>
    /\ call' = [NoCall EXCEPT !.op = "clear"]
    /\ ret' = NoRet
    /\ UNCHANGED <<modelVars, rendererVars, appVars, controllerVars, inputVars, animVars, cameraVars>>

NextCollisionWorld ==
    \/ \E box \in Walls : addStaticAABB(box)
    \/ \E box \in Boxes : TestAgainstStatic(box)
    \/ \E box \in Boxes : ResolveCollisions(box, box.min)
    \/ ClearWorld

SpecCollisionWorld == InitCollisionWorld /\ [][NextCollisionWorld]_vars

\* ------------------------------------------------------------------------
\* C4, C5: the collision world's answers
\* ------------------------------------------------------------------------

\* a lies fully inside b
Inside(a, b) == \A i \in Axes : b.min[i] <= a.min[i] /\ a.max[i] <= b.max[i]

\* a has a positive extent along every axis
Solid(a) == \A i \in Axes : a.min[i] < a.max[i]

\* The box of the last resolveCollisions call, moved by the returned correction.
CorrectedBox == Translated(call.box, VSub(ret.pos, call.pos))

SingleWallResolve(box) ==
    /\ call.op = "resolve"
    /\ Len(m_staticBoxes) = 1
    /\ Inside(box, m_staticBoxes[1])

\* C4 as claimed: any valid box fully inside the only wall is, once moved by
\* the correction resolveCollisions returns, no longer overlapping that wall
\* (a fresh testAABBvsAABB is false).
C4_AnyBoxInsideIsFreed ==
    SingleWallResolve(call.box) => ~testAABBvsAABB(CorrectedBox, m_staticBoxes[1])

\* C4 amended: a box with a positive extent along every axis that lies fully
\* inside the only wall is, once moved by the correction resolveCollisions
\* returns, no longer overlapping that wall (a fresh testAABBvsAABB is false).
C4_SolidBoxInsideIsFreed ==
    (SingleWallResolve(call.box) /\ Solid(call.box))
        => ~testAABBvsAABB(CorrectedBox, m_staticBoxes[1])

\* A solid box strictly inside the wall was resolved, and it was moved.
C4_Witness ==
    /\ SingleWallResolve(call.box)
    /\ Solid(call.box)
    /\ call.box # m_staticBoxes[1]
    /\ ret.pos # call.pos

\* The static boxes the moving box overlaps with a positive penetration depth.
Penetrated(box) ==
    {k \in 1..Len(m_staticBoxes) :
        /\ testAABBvsAABB(box, m_staticBoxes[k])
        /\ testAABBvsAABBResponse(box, m_staticBoxes[k]).penetration > 0}

\* The static boxes the moving box overlaps, as testAABBvsAABB decides.
Overlapped(box) ==
    {k \in 1..Len(m_staticBoxes) : testAABBvsAABB(box, m_staticBoxes[k])}

\* The earliest-inserted of the deepest boxes among ks.
EarliestDeepest(box, ks) ==
    CHOOSE k \in ks :
        \A j \in ks :
            LET pk == testAABBvsAABBResponse(box, m_staticBoxes[k]).penetration
                pj == testAABBvsAABBResponse(box, m_staticBoxes[j]).penetration
            IN  pj < pk \/ (pj = pk /\ k <= j)

\* C5 as claimed: testAgainstStatic hits exactly when the moving box overlaps
\* some static box (as testAABBvsAABB decides); a hit is the response for the
\* deepest overlapping box, the earliest on a tie; else hit is false and the
\* penetration 0.
C5_HitIffOverlap ==
    call.op = "test" =>
        IF Overlapped(call.box) # {}
        THEN ret.result = testAABBvsAABBResponse(
                 call.box, m_staticBoxes[EarliestDeepest(call.box, Overlapped(call.box))])
        ELSE ~ret.result.hit /\ ret.result.penetration = 0

\* C5 amended: testAgainstStatic hits exactly when the moving box overlaps
\* some static box with a penetration depth greater than 0; a hit is the
\* response for the deepest such box, the earliest on a tie; else hit is false
\* and the penetration 0.
C5_HitIffPenetration ==
    call.op = "test" =>
        IF Penetrated(call.box) # {}
        THEN ret.result = testAABBvsAABBResponse(
                 call.box, m_staticBoxes[EarliestDeepest(call.box, Penetrated(call.box))])
        ELSE ~ret.result.hit /\ ret.result.penetration = 0

\* A test found two penetrated boxes of different depth and reported the
\* second-inserted, deeper one.
C5_Witness ==
    /\ call.op = "test"
    /\ Len(m_staticBoxes) >= 2
    /\ Penetrated(call.box) = {1, 2}
    /\ ret.result.hit
    /\ ret.result = testAABBvsAABBResponse(call.box, m_staticBoxes[2])
    /\ ret.result.penetration
           > testAABBvsAABBResponse(call.box, m_staticBoxes[1]).penetration


\* ------------------------------------------------------------------------
\* One car model on its own: setters, move and turn interleaved with the
\* matrix getter
\* ------------------------------------------------------------------------

\* Most calls made on the model in the transform specification.
MaxCalls == 4

InitTransform ==
    /\ models = [id \in {"car"} |-> NewModel]
    /\ modelCall = NoModelCall
    /\ nCalls = 0
    /\ IdleCollision
    /\ IdleRenderer
    /\ IdleApp
    /\ IdleController
    /\ IdleInput
    /\ IdleAnim
    /\ IdleCamera

\* A setter call on the model: its new state is `after`.
ModelSet(id, name, after) ==
    /\ nCalls < MaxCalls
    /\ models' = [models EXCEPT ![id] = after]
    /\ modelCall' = [NoModelCall EXCEPT !.op = name, !.id = id]
    /\ nCalls' = nCalls + 1
    /\ UNCHANGED <<collisionVars, rendererVars, appVars, controllerVars, inputVars, animVars, cameraVars>>

SetPosition(id, position) == ModelSet(id, "setPosition", setPosition(models[id], position))

SetRotation(id, rotation) == ModelSet(id, "setRotation", setRotation(models[id], rotation))

SetScale(id, scale) == ModelSet(id, "setScale", setScale(models[id], scale))

Move(id, amount, deltaTime) == ModelSet(id, "move", move(models[id], amount, deltaTime))

Turn(id, steps) == ModelSet(id, "turn", turn(models[id], steps))

\* A call of Model::getModelMatrix
GetModelMatrix(id) ==
    /\ nCalls < MaxCalls
    /\ models' = [models EXCEPT ![id] = afterGetModelMatrix(models[id])]
    /\ modelCall' = [op         |-> "getModelMatrix",
                     id         |-> id,
                     matrix     |-> getModelMatrix(models[id]),
                     recomputed |-> models[id].m_modelMatrixDirty]
    /\ nCalls' = nCalls + 1
    /\ UNCHANGED <<collisionVars, rendererVars, appVars, controllerVars, inputVars, animVars, cameraVars>>

\* Frame times of a tenth and a sixtieth of a second.
FrameTimes == {Second \div 10, Second \div 60}

NextTransform ==
    \/ \E p \in {Vec(0, Unit \div 5, 0), Vec(Unit, 0, 2 * Unit)} : SetPosition("car", p)
    \/ \E r \in {<<0, 0, 0>>, <<1, 2, 3>>} : SetRotation("car", r)
    \/ \E k \in {<<1, 1, 1>>, <<2, 1, 3>>} : SetScale("car", k)
    \/ \E a \in {5, -5} : \E dt \in FrameTimes : Move("car", a, dt)
    \/ \E k \in {1, -1} : Turn("car", k)
    \/ GetModelMatrix("car")

SpecTransform == InitTransform /\ [][NextTransform]_vars

\* ------------------------------------------------------------------------
\* C10: the matrix getter is never stale, and is idempotent
\* ------------------------------------------------------------------------

\* The matrix the last getter call returned is the composition of the
\* model's position, rotation and scale.
ReturnedMatrixIsCurrent ==
    modelCall.op = "getModelMatrix" =>
        LET m == models[modelCall.id]
        IN  modelCall.matrix = ComposeModelMatrix(m.m_position, m.m_rotation, m.m_scale)

\* A getter call that follows a getter call returns the same matrix and
\* recomputes nothing.
GetterIsIdempotent ==
    (modelCall.op = "getModelMatrix" /\ modelCall'.op = "getModelMatrix"
        /\ nCalls' = nCalls + 1)
        => (modelCall'.matrix = modelCall.matrix /\ ~modelCall'.recomputed)

\* C10: getModelMatrix always returns the matrix composed from the model's
\* current position, rotation and scale, whatever setters, move and turn
\* calls came before it; and a second getter call with no setter in between
\* returns the identical matrix without recomputing it.
C10_GetterCurrentAndIdempotent ==
    []ReturnedMatrixIsCurrent /\ [][GetterIsIdempotent]_vars

\* The getter was called on a car that had been moved and turned: it
\* recomputed the matrix, which is no longer the identity.
C10_Witness ==
    /\ modelCall.op = "getModelMatrix"
    /\ modelCall.recomputed
    /\ nCalls >= 3
    /\ models["car"].m_position # Zero3
    /\ models["car"].m_heading # 0
    /\ modelCall.matrix # Identity4


\* ------------------------------------------------------------------------
\* The renderer on its own: frames of submissions, with the camera and the
\* models changing in between
\* ------------------------------------------------------------------------

\* Most commands submitted between two beginFrame calls.
MaxCommands == 3

\* Camera positions, and the transforms handed to submit: they put the
\* submitted objects at distances 1, 3, 3 and 5 from the camera.
CameraPositions == {Zero3, Vec(0 - 2 * Unit, 0, 0)}

Transforms == {Translation4(Vec(Unit, 0, 0)), Translation4(Vec(3 * Unit, 0, 0))}

\* The submit calls: the body with the default transform (the identity), the
\* glass pane with either transform.
Submissions == {<<"body", Identity4>>} \cup {<<"glass", t>> : t \in Transforms}

\* Material::Glass: opacity 0.3
GlassOpacity == 30

\* Renderer::Renderer leaves m_cameraPosition uninitialised: it holds any
\* value.  The scene has a car body and a glass pane.
InitRenderer ==
    /\ m_cameraPosition \in CameraPositions
    /\ m_opaqueCommands = <<>>
    /\ m_transparentCommands = <<>>
    /\ glLog = <<>>
    /\ NoLights
    /\ models = [id \in {"body", "glass"} |->
                    IF id = "glass" THEN [NewModel EXCEPT !.opacity = GlassOpacity]
                    ELSE NewModel]
    /\ modelCall = NoModelCall
    /\ nCalls = 0
    /\ IdleCollision
    /\ IdleApp
    /\ IdleController
    /\ IdleInput
    /\ IdleAnim
    /\ IdleCamera

\* Renderer::beginFrame
BeginFrame ==
    /\ m_opaqueCommands' = clear(m_opaqueCommands)
    /\ m_transparentCommands' = clear(m_transparentCommands)
    /\ m_pointLights' = clear(m_pointLights)
    /\ m_spotLights' = clear(m_spotLights)
    /\ m_directionalLight' = NullLight
    /\ handed' = NoneHanded
    /\ glLog' = <<GLCall("clear")>>
    /\ UNCHANGED <<m_cameraPosition, modelVars, collisionVars, appVars, controllerVars, inputVars, animVars, cameraVars>>

\* Renderer::setCamera
SetCamera(position) ==
    /\ m_cameraPosition' = position
    /\ glLog' = <<>>
    /\ UNCHANGED <<m_opaqueCommands, m_transparentCommands, lightVars,
                   modelVars, collisionVars, appVars, controllerVars, inputVars, animVars, cameraVars>>

\* Renderer::submit
Submit(id, transform) ==
    /\ Len(m_opaqueCommands) + Len(m_transparentCommands) < MaxCommands
    /\ LET cmd == NewCommand(id, models[id], transform, m_cameraPosition)
       IN  IF cmd.transparent
           THEN /\ m_transparentCommands' = Append(m_transparentCommands, cmd)
                /\ UNCHANGED m_opaqueCommands
           ELSE /\ m_opaqueCommands' = Append(m_opaqueCommands, cmd)
                /\ UNCHANGED m_transparentCommands
    /\ handed' = [handed EXCEPT !.commands = @ + 1]
    /\ glLog' = <<>>
    /\ UNCHANGED <<m_cameraPosition, m_directionalLight, m_pointLights, m_spotLights,
                   modelVars, collisionVars, appVars, controllerVars, inputVars, animVars, cameraVars>>

\* Renderer::endFrame
EndFrame ==
    /\ \E sorted \in SortOutcomes(m_transparentCommands) :
        /\ m_transparentCommands' = sorted
        /\ glLog' = EndFrameLog(m_opaqueCommands, sorted, models,
                              applyLighting(m_directionalLight, m_pointLights, m_spotLights))
    /\ models' = AfterDraws(models, m_opaqueCommands \o m_transparentCommands)
    /\ UNCHANGED <<m_cameraPosition, m_opaqueCommands, lightVars, modelCall, nCalls,
                   collisionVars, appVars, controllerVars, inputVars, animVars, cameraVars>>

\* The scene moves a model between two Renderer calls.
SceneSetPosition(id, position) ==
    /\ models[id].m_position # position
    /\ models' = [models EXCEPT ![id] = setPosition(models[id], position)]
    /\ glLog' = <<>>
    /\ UNCHANGED <<m_cameraPosition, m_opaqueCommands, m_transparentCommands, lightVars,
                   modelCall, nCalls, collisionVars, appVars, controllerVars, inputVars, animVars, cameraVars>>

\* The scene changes a model's material opacity through getMaterial().
SceneSetOpacity(id, opacity) ==
    /\ models[id].opacity # opacity
    /\ models' = [models EXCEPT ![id].opacity = opacity]
    /\ glLog' = <<>>
    /\ UNCHANGED <<m_cameraPosition, m_opaqueCommands, m_transparentCommands, lightVars,
                   modelCall, nCalls, collisionVars, appVars, controllerVars, inputVars, animVars, cameraVars>>

NextRenderer ==
    \/ BeginFrame
    \/ \E c \in CameraPositions : SetCamera(c)
    \/ \E sub \in Submissions : Submit(sub[1], sub[2])
    \/ EndFrame
    \/ \E p \in {Zero3, Vec(0, Unit, 0)} : SceneSetPosition("body", p)
    \/ \E o \in {OpacityOne, GlassOpacity} : SceneSetOpacity("glass", o)

SpecRenderer == InitRenderer /\ [][NextRenderer]_vars

\* ------------------------------------------------------------------------
\* The renderer's frames with their lights
\* ------------------------------------------------------------------------

\* Most lights of a kind handed to the renderer past its cap in a frame
MaxOver == 1

\* The directional lights a caller hands to the renderer
DirectionalLights == {"sun"}

\* Renderer::setDirectionalLight
SetDirectionalLight(light) ==
    /\ m_directionalLight' = light
    /\ glLog' = <<>>
    /\ UNCHANGED <<m_pointLights, m_spotLights, handed, m_cameraPosition, m_opaqueCommands,
                   m_transparentCommands, modelVars, collisionVars, appVars, controllerVars, inputVars, animVars, cameraVars>>

\* Renderer::addPointLight; the lights handed over in a frame are numbered
\* in the order of the calls
AddPointLight(light) ==
    /\ handed.point < MAX_POINT_LIGHTS + MaxOver
    /\ m_pointLights' = addLight(m_pointLights, light, MAX_POINT_LIGHTS)
    /\ handed' = [handed EXCEPT !.point = @ + 1]
    /\ glLog' = <<>>
    /\ UNCHANGED <<m_directionalLight, m_spotLights, m_cameraPosition, m_opaqueCommands,
                   m_transparentCommands, modelVars, collisionVars, appVars, controllerVars, inputVars, animVars, cameraVars>>

\* Renderer::addSpotLight
AddSpotLight(light) ==
    /\ handed.spot < MAX_SPOT_LIGHTS + MaxOver
    /\ m_spotLights' = addLight(m_spotLights, light, MAX_SPOT_LIGHTS)
    /\ handed' = [handed EXCEPT !.spot = @ + 1]
    /\ glLog' = <<>>
    /\ UNCHANGED <<m_directionalLight, m_pointLights, m_cameraPosition, m_opaqueCommands,
                   m_transparentCommands, modelVars, collisionVars, appVars, controllerVars, inputVars, animVars, cameraVars>>

\* Renderer::clearLights
ClearLights ==
    /\ m_pointLights' = clear(m_pointLights)
    /\ m_spotLights' = clear(m_spotLights)
    /\ m_directionalLight' = NullLight
    /\ handed' = [handed EXCEPT !.pointCleared = handed.point, !.spotCleared = handed.spot]
    /\ glLog' = <<>>
    /\ UNCHANGED <<m_cameraPosition, m_opaqueCommands, m_transparentCommands,
                   modelVars, collisionVars, appVars, controllerVars, inputVars, animVars, cameraVars>>

\* The renderer as constructed, with the camera set at the origin
InitLights == InitRenderer /\ m_cameraPosition = Zero3

NextLights ==
    \/ BeginFrame
    \/ \E light \in DirectionalLights : SetDirectionalLight(light)
    \/ AddPointLight(handed.point + 1)
    \/ AddSpotLight(handed.spot + 1)
    \/ ClearLights
    \/ \E sub \in {<<"body", Identity4>>, <<"glass", Identity4>>} : Submit(sub[1], sub[2])
    \/ EndFrame

SpecLights == InitLights /\ [][NextLights]_vars


\* ------------------------------------------------------------------------
\* C1, C2, C6, C9: what endFrame draws, and in which order
\* ------------------------------------------------------------------------

\* The step is a call of endFrame: its log opens with the shader's use().
EndFrameStep == glLog' # <<>> /\ glLog'[1].op = "use"

\* The state is the one a call of endFrame left.
AfterEndFrame == glLog # <<>> /\ glLog[1].op = "use"

\* The places of a log that hold a draw of the opaque / the transparent pass.
OpaqueDrawsAt(log) == {i \in 1..Len(log) : log[i].op = "draw" /\ ~log[i].cmd.transparent}

TransparentDrawsAt(log) == {i \in 1..Len(log) : log[i].op = "draw" /\ log[i].cmd.transparent}

\* The commands a log draws at the places `at`, in the order of the log.
RECURSIVE DrawnFrom(_, _, _)
DrawnFrom(log, at, i) ==
    IF i > Len(log) THEN <<>>
    ELSE (IF i \in at THEN <<log[i].cmd>> ELSE <<>>) \o DrawnFrom(log, at, i + 1)

Drawn(log, at) == DrawnFrom(log, at, 1)

\* s is a rearrangement of t.
IsRearrangement(s, t) ==
    /\ Len(s) = Len(t)
    /\ \E f \in Permutations(1..Len(t)) : \A i \in 1..Len(t) : s[i] = t[f[i]]

\* C1: every endFrame executes exactly the transparent commands submitted,
\* in non-increasing order of the distance stored on them at submission
\* (farthest first), whatever the order they were submitted in.
C1_TransparentFarthestFirst ==
    [][EndFrameStep =>
        \E drawn \in {Drawn(glLog', TransparentDrawsAt(glLog'))} :
            /\ IsRearrangement(drawn, m_transparentCommands)
            /\ \A i, j \in 1..Len(drawn) :
                   i < j => drawn[i].distanceToCamera >= drawn[j].distanceToCamera]_vars

\* endFrame has executed three transparent commands, at distances 5, 3 and 1.
C1_Witness ==
    /\ AfterEndFrame
    /\ LET drawn == Drawn(glLog, TransparentDrawsAt(glLog))
       IN  /\ Len(drawn) = 3
           /\ drawn[1].distanceToCamera = 5 * Unit
           /\ drawn[2].distanceToCamera = 3 * Unit
           /\ drawn[3].distanceToCamera = Unit

\* A submit call appends to a command list: the order of a list is the
\* order of submission.
SubmitAppends(old, new) ==
    new # old => (new = <<>> \/ (Len(new) = Len(old) + 1 /\ SubSeq(new, 1, Len(old)) = old))

\* C2: within one endFrame every opaque command is executed, in the order
\* it was submitted, before any transparent command is executed, however
\* the opaque and transparent submit calls were interleaved.
C2_OpaqueInOrderFirst ==
    [][/\ SubmitAppends(m_opaqueCommands, m_opaqueCommands')
       /\ EndFrameStep =>
              /\ Drawn(glLog', OpaqueDrawsAt(glLog')) = m_opaqueCommands
              /\ \A i \in OpaqueDrawsAt(glLog') : \A j \in TransparentDrawsAt(glLog') : i < j]_vars

\* endFrame has executed two opaque commands and, after them, a transparent one.
C2_Witness ==
    /\ AfterEndFrame
    /\ Cardinality(OpaqueDrawsAt(glLog)) = 2
    /\ Cardinality(TransparentDrawsAt(glLog)) = 1
    /\ \E i, j \in OpaqueDrawsAt(glLog) : glLog[i].cmd # glLog[j].cmd

\* C6: a submitted command is drawn with the transform captured at
\* submission: the matrix of every draw is the command's transform times
\* the model's matrix as it was when the command was submitted, whatever
\* happened to the model's position, rotation or scale since.
C6_DrawnAsSubmitted ==
    \A i \in 1..Len(glLog) :
        glLog[i].op = "draw" =>
            glLog[i].matrix = Mat4Mul(glLog[i].cmd.transform, glLog[i].cmd.modelMatrixAtSubmit)

\* The step is a call of submit: the two lists hold one command more.
SubmitStep ==
    Len(m_opaqueCommands') + Len(m_transparentCommands')
        = Len(m_opaqueCommands) + Len(m_transparentCommands) + 1

\* The command a submit step added.
Submitted ==
    IF m_transparentCommands' # m_transparentCommands
    THEN m_transparentCommands'[Len(m_transparentCommands')]
    ELSE m_opaqueCommands'[Len(m_opaqueCommands')]

\* C9: submit puts the command in the transparent list exactly when the
\* model's material opacity is below 1.0 at that moment, and stores on a
\* transparent command the distance from the transform's translation to the
\* camera position of that moment; a later setCamera or change of the
\* opacity moves no command to the other list and changes no stored distance.
C9_ClassifiedAndMeasuredAtSubmit ==
    [][/\ SubmitStep =>
              LET cmd == Submitted
                  transparent == models[cmd.model].opacity < OpacityOne
              IN  /\ (m_transparentCommands' # m_transparentCommands) = transparent
                  /\ (m_opaqueCommands' # m_opaqueCommands) = ~transparent
                  /\ cmd.transparent = transparent
                  /\ transparent =>
                         cmd.distanceToCamera = Length(VSub(m_cameraPosition, cmd.transform.t))
       /\ (m_cameraPosition' # m_cameraPosition
              \/ \E id \in DOMAIN models : models'[id].opacity # models[id].opacity)
          => /\ m_transparentCommands' = m_transparentCommands
             /\ m_opaqueCommands' = m_opaqueCommands]_vars

\* A command sits in the transparent list with the distance of its
\* submission although the camera has moved and its model has become opaque.
C9_Witness ==
    \E k \in 1..Len(m_transparentCommands) :
        LET cmd == m_transparentCommands[k]
        IN  /\ models[cmd.model].opacity = OpacityOne
            /\ cmd.distanceToCamera # Length(VSub(m_cameraPosition, cmd.transform.t))
            /\ cmd.distanceToCamera = 5 * Unit

\* ------------------------------------------------------------------------
\* The application: the frame loop drives the car, resolves it against the
\* showroom walls at the fixed timestep, and renders the scene
\* ------------------------------------------------------------------------

\* The number of frames of a run.
MaxFrames == 2

\* Application::FIXED_TIMESTEP = 1.0f / 60.0f
FIXED_TIMESTEP == Second \div 60

\* A mutation of the cap on the frame delta: a fifth of a second.
MaxDeltaTime_fifth == Second \div 5

\* The cap Application::run puts on the frame delta: 0.1f
MaxDeltaTime == Second \div 10

\* The frame deltas the clock yields: shorter than the fixed timestep, the
\* cap, and twice the cap.
FrameDeltas == {FIXED_TIMESTEP - 1, MaxDeltaTime, 2 * MaxDeltaTime}

\* The keys Input::processCar reads.
CarKeys == {"I", "K", "J", "L"}

\* ShowroomScene::m_showroomSize = (30, 10, 20)
m_showroomSize == Vec(30 * Unit, 10 * Unit, 20 * Unit)

\* ShowroomScene::setupCollision: wallThickness = 0.5f
wallThickness == Unit \div 2

\* ShowroomScene::setupCollision: the back, front, left and right wall.
ShowroomWalls ==
    LET halfWidth == m_showroomSize[1] \div 2
        halfDepth == m_showroomSize[3] \div 2
        height    == m_showroomSize[2]
    IN  <<AABB(Vec(-halfWidth, 0, -halfDepth - wallThickness), Vec(halfWidth, height, -halfDepth)),
          AABB(Vec(-halfWidth, 0, halfDepth), Vec(halfWidth, height, halfDepth + wallThickness)),
          AABB(Vec(-halfWidth - wallThickness, 0, -halfDepth), Vec(-halfWidth, height, halfDepth)),
          AABB(Vec(halfWidth, 0, -halfDepth), Vec(halfWidth + wallThickness, height, halfDepth))>>

\* Application::fixedUpdate: carSize(4.0f, 1.5f, 1.8f)
carSize == Vec(4 * Unit, (3 * Unit) \div 2, (9 * Unit) \div 5)

\* ShowroomScene::constrainPosition: the test box of `size` centred on
\* `position`.
TestBox(position, size) ==
    AABB(Vec(position[1] - size[1] \div 2, position[2] - size[2] \div 2, position[3] - size[3] \div 2),
         Vec(position[1] + size[1] \div 2, position[2] + size[2] \div 2, position[3] + size[3] \div 2))

\* ShowroomScene::constrainPosition
constrainPosition(boxes, position, size) ==
    resolveCollisions(boxes, TestBox(position, size), position)

\* ShowroomScene::createMainCar: the car stands on the platform.
PlatformPosition == Vec(0, Unit \div 5, 0)

\* Camera::Camera(): m_position(0, 2, 5)
CameraPosition == Vec(0, 2 * Unit, 5 * Unit)

\* Where a run is picked up, as position and heading of the car: on the
\* platform as constructed, or where driving from the platform in frames of
\* 0.1 s has brought the car: touching the right wall, next to the corner
\* of the right and the back wall, and next to the corner of the left and
\* the front wall, headed for the corner.
CarStarts ==
    {<<PlatformPosition, 0>>,
     <<Vec(13 * Unit, Unit \div 5, 0), 2>>,
     <<Vec(13 * Unit, Unit \div 5, 0 - 9 * Unit), 3>>,
     <<Vec(0 - 13 * Unit, Unit \div 5, 9 * Unit), 7>>}

\* The main car as ShowroomScene::createMainCar and earlier driving left it.
MainCar(start) ==
    [NewModel EXCEPT !.m_position = start[1],
                     !.m_heading = start[2],
                     !.m_rotation = <<0, start[2], 0>>]

\* ShowroomScene::createEnvironment and createBackgroundCars: the platform
\* and a background car stand for the environment models and the
\* background cars.
SceneObjects == <<"platform", "car", "background">>

InitApplication ==
    /\ \E start \in CarStarts :
        models = [id \in {"platform", "car", "background"} |->
                    IF id = "car" THEN MainCar(start)
                    ELSE IF id = "background"
                         THEN [NewModel EXCEPT !.m_position = Vec(0 - 8 * Unit, 0, 0 - 5 * Unit)]
                         ELSE NewModel]
    /\ modelCall = NoModelCall
    /\ nCalls = 0
    /\ m_staticBoxes = ShowroomWalls
    /\ call = NoCall
    /\ ret = NoRet
    /\ m_cameraPosition \in CameraPositions
    /\ m_opaqueCommands = <<>>
    /\ m_transparentCommands = <<>>
    /\ glLog = <<>>
    /\ NoLights
    /\ m_physicsAccumulator = 0
    /\ ticks = 0
    /\ m_deltaTime = 0
    /\ pc = "frame"
    /\ frame = 0
    /\ IdleController
    /\ IdleInput
    /\ IdleAnim
    /\ IdleCamera

\* Input::processCar: I and K drive at 5 units/s forward and backward, J
\* and L turn; the car is moved, then turned.
processCar(car, held, deltaTime) ==
    LET amount == (IF "I" \in held THEN 5 ELSE 0) - (IF "K" \in held THEN 5 ELSE 0)
        steps  == (IF "J" \in held THEN 1 ELSE 0) - (IF "L" \in held THEN 1 ELSE 0)
    IN  turn(move(car, amount, deltaTime), steps)

\* Application::run up to the fixed-timestep loop: the frame delta is
\* measured and capped, processInput drives the car with the keys held,
\* and the delta is added to the accumulator.
BeginIteration(elapsed, held) ==
    /\ pc = "frame"
    /\ frame < MaxFrames
    /\ m_deltaTime' = Min2(elapsed, MaxDeltaTime)
    /\ models' = [models EXCEPT !["car"] = processCar(models["car"], held, m_deltaTime')]
    /\ m_physicsAccumulator' = m_physicsAccumulator + m_deltaTime'
    /\ ticks' = 0
    /\ pc' = "physics"
    /\ glLog' = <<>>
    /\ UNCHANGED <<frame, modelCall, nCalls, collisionVars, animVars, cameraVars, controllerVars, inputVars,
                   m_cameraPosition, m_opaqueCommands, m_transparentCommands, lightVars>>

\* The car after Application::fixedUpdate: constrained to the showroom, and
\* set to the constrained position if that differs.
fixedUpdate(boxes, car) ==
    LET constrainedPos == constrainPosition(boxes, car.m_position, carSize)
    IN  IF constrainedPos # car.m_position THEN setPosition(car, constrainedPos) ELSE car

\* One turn of the fixed-timestep loop of Application::run.
FixedUpdate ==
    /\ pc = "physics"
    /\ m_physicsAccumulator >= FIXED_TIMESTEP
    /\ models' = [models EXCEPT !["car"] = fixedUpdate(m_staticBoxes, models["car"])]
    /\ m_physicsAccumulator' = m_physicsAccumulator - FIXED_TIMESTEP
    /\ ticks' = ticks + 1
    /\ glLog' = <<>>
    /\ UNCHANGED <<pc, frame, m_deltaTime, modelCall, nCalls, collisionVars, animVars, cameraVars, controllerVars, inputVars,
                   m_cameraPosition, m_opaqueCommands, m_transparentCommands, lightVars>>

\* A draw issued by Model::draw(shader) outside the command queue: the
\* "model" uniform is the model's own matrix.
ImmediateDraw(id, ms) == [op |-> "draw", model |-> id, matrix |-> getModelMatrix(ms[id])]

\* The draws of the models `ids` in order; draw returns at once for a model
\* that is not visible.
RECURSIVE ImmediateDraws(_, _)
ImmediateDraws(ids, ms) ==
    IF ids = <<>> THEN <<>>
    ELSE (IF ms[Head(ids)].m_visible THEN <<ImmediateDraw(Head(ids), ms)>> ELSE <<>>)
             \o ImmediateDraws(Tail(ids), ms)

\* ShowroomScene::draw: the environment, the opaque parts of the main car
\* and of the background cars, then the transparent parts of the main car
\* and of the background cars.
SceneDrawLog(ms) ==
    ImmediateDraws(<<"platform", "car", "background", "car", "background">>, ms)

\* ShowroomScene::setupLighting: the sun, four ceiling lights, and the
\* spotlight on the main car
SceneSunLight == "sun"

ScenePointLights == <<"ceiling1", "ceiling2", "ceiling3", "ceiling4">>

SceneSpotLights == <<"carSpotlight">>

\* The loops of Application::render that hand the scene's lights to the
\* renderer one by one
RECURSIVE AddAll(_, _, _)
AddAll(held, lights, cap) ==
    IF lights = <<>> THEN held
    ELSE AddAll(addLight(held, Head(lights), cap), Tail(lights), cap)

\* What Application::render leaves: beginFrame clears the lists and the
\* screen, ShowroomScene::draw draws the scene at once, and endFrame binds
\* the camera and the lights and executes the lists, which are empty.
RenderFrame(ms) ==
    LET points == AddAll(<<>>, ScenePointLights, MAX_POINT_LIGHTS)
        spots  == AddAll(<<>>, SceneSpotLights, MAX_SPOT_LIGHTS)
    IN  [opaque      |-> <<>>,
         transparent |-> <<>>,
         dirLight    |-> SceneSunLight,
         pointLights |-> points,
         spotLights  |-> spots,
         log         |-> <<GLCall("clear")>> \o SceneDrawLog(ms)
                            \o EndFrameLog(<<>>, <<>>, ms,
                                           applyLighting(SceneSunLight, points, spots))]

\* Application::run after the fixed-timestep loop: update, then render
\* (beginFrame, setCamera, the lights, the scene, endFrame), then the
\* buffers are swapped.
UpdateAndRender ==
    /\ pc = "physics"
    /\ m_physicsAccumulator < FIXED_TIMESTEP
    /\ m_cameraPosition' = CameraPosition
    /\ LET rendered == RenderFrame(models)
       IN  /\ m_opaqueCommands' = rendered.opaque
           /\ m_transparentCommands' = rendered.transparent
           /\ m_directionalLight' = rendered.dirLight
           /\ m_pointLights' = rendered.pointLights
           /\ m_spotLights' = rendered.spotLights
           /\ handed' = [NoneHanded EXCEPT !.point = Len(ScenePointLights),
                                          !.spot = Len(SceneSpotLights)]
           /\ glLog' = rendered.log
    /\ models' = [id \in DOMAIN models |->
                    IF models[id].m_visible THEN afterGetModelMatrix(models[id]) ELSE models[id]]
    /\ pc' = "frame"
    /\ frame' = frame + 1
    /\ UNCHANGED <<m_physicsAccumulator, ticks, m_deltaTime, modelCall, nCalls, collisionVars, animVars, cameraVars, controllerVars, inputVars>>

NextApplication ==
    \/ \E elapsed \in FrameDeltas : \E held \in SUBSET CarKeys : BeginIteration(elapsed, held)
    \/ FixedUpdate
    \/ UpdateAndRender

SpecApplication == InitApplication /\ [][NextApplication]_vars

\* ------------------------------------------------------------------------
\* C3: the fixed-timestep tick keeps the car out of the walls
\* ------------------------------------------------------------------------

\* The box a overlaps the box b by a positive depth on every axis.
Penetrates(a, b) ==
    \A i \in Axes : a.min[i] < b.max[i] /\ b.min[i] < a.max[i]

\* The main car's test box penetrates one of the static boxes.
CarPenetrates(ms, boxes) ==
    \E k \in 1..Len(boxes) : Penetrates(TestBox(ms["car"].m_position, carSize), boxes[k])

\* The step is one turn of the fixed-timestep loop.
TickStep == m_physicsAccumulator' = m_physicsAccumulator - FIXED_TIMESTEP

\* C3: after every fixed-timestep tick the main car's test box (4 x 1.5 x
\* 1.8 about the car's position) penetrates none of the four walls of the
\* showroom by a positive depth, whatever keys were held in the frames so
\* far and however long the frames were, corners included.
C3_NoPenetrationAfterTick ==
    [][TickStep => ~CarPenetrates(models', m_staticBoxes')]_vars

\* A tick has pushed the car out of the right and the back wall at their
\* corner: its box stands the margin of the push off both.
C3_Witness ==
    /\ pc = "physics"
    /\ m_physicsAccumulator < m_deltaTime
    /\ LET box == TestBox(models["car"].m_position, carSize)
       IN  /\ box.max[1] = m_staticBoxes[4].min[1] - Epsilon
           /\ box.min[3] = m_staticBoxes[1].max[3] + Epsilon

\* ------------------------------------------------------------------------
\* C7, C8: what a frame of the application sends to the GPU
\* ------------------------------------------------------------------------

\* Application::render has completed a frame; glLog holds its calls.
FrameRendered == pc = "frame" /\ frame > 0

\* C7: in every frame that Application::render renders, each visible object
\* of the scene has a command in the Renderer's lists, submitted between
\* beginFrame and endFrame, and every draw of the frame is the execution
\* of a command of those lists by endFrame.
C7_SceneDrawnThroughQueue ==
    FrameRendered =>
        LET queued == m_opaqueCommands \o m_transparentCommands
        IN  /\ \A k \in 1..Len(SceneObjects) :
                   models[SceneObjects[k]].m_visible =>
                       \E q \in 1..Len(queued) : queued[q].model = SceneObjects[k]
            /\ \A i \in 1..Len(glLog) :
                   glLog[i].op = "draw" =>
                       /\ "cmd" \in DOMAIN glLog[i]
                       /\ \E q \in 1..Len(queued) : queued[q] = glLog[i].cmd

\* C8: in every frame the camera matrices and the light uniforms are bound
\* to the shader exactly once, and no draw of the frame is issued before
\* they are bound.
C8_BoundOnceBeforeDraws ==
    FrameRendered =>
        /\ Cardinality({i \in 1..Len(glLog) : glLog[i].op = "setCamera"}) = 1
        /\ Cardinality({i \in 1..Len(glLog) : glLog[i].op = "applyLighting"}) = 1
        /\ \A i \in 1..Len(glLog) :
               glLog[i].op = "draw" =>
                   \E c, l \in 1..(i - 1) :
                       glLog[c].op = "setCamera" /\ glLog[l].op = "applyLighting"

\* The part of C8 that holds: the bindings are made exactly once a frame.
C8_BoundOnce ==
    FrameRendered =>
        /\ Cardinality({i \in 1..Len(glLog) : glLog[i].op = "setCamera"}) = 1
        /\ Cardinality({i \in 1..Len(glLog) : glLog[i].op = "applyLighting"}) = 1

\* ------------------------------------------------------------------------
\* Animation: one float value animated over time
\* ------------------------------------------------------------------------

\* The easing functions of the specification; each maps 0 to 0 and 1 to 1.
Easings == {"linear", "easeInQuad", "easeOutQuad"}

\* span * easing(t) for t = tNum / tDen: Easing::linear is t, easeInQuad is
\* t * t, easeOutQuad is t * (2 - t).
Ease(easing, span, tNum, tDen) ==
    CASE easing = "linear"      -> (span * tNum) \div tDen
      [] easing = "easeInQuad"  -> (((span * tNum) \div tDen) * tNum) \div tDen
      [] easing = "easeOutQuad" -> (((span * tNum) \div tDen) * (2 * tDen - tNum)) \div tDen

\* Animation::Animation
NewAnimation(startValue, endValue, duration, easing) ==
    [m_startValue         |-> startValue,
     m_endValue           |-> endValue,
     m_currentValue       |-> startValue,
     m_duration           |-> duration,
     m_elapsed            |-> 0,
     m_complete           |-> FALSE,
     m_paused             |-> FALSE,
     m_easing             |-> easing,
     m_completionCallback |-> FALSE]

\* A mutation of the guard of update: a complete animation is updated on.
ShouldReturnEarly_pausedOnly(a) == a.m_paused

\* A mutation of the guard of update: a paused animation is updated on.
ShouldReturnEarly_completeOnly(a) == a.m_complete

\* Animation::update: if (m_complete || m_paused) return m_currentValue;
ShouldReturnEarly(a) == a.m_complete \/ a.m_paused

\* Animation::update: m_elapsed += deltaTime
Advanced(a, deltaTime) == [a EXCEPT !.m_elapsed = @ + deltaTime]

\* Animation::update: t = m_elapsed / m_duration; t >= 1.0f
Completes(a) == a.m_elapsed >= a.m_duration

\* Animation::update: the interpolation at t = tNum / m_duration.
Interpolated(a, tNum) ==
    [a EXCEPT !.m_currentValue =
        a.m_startValue + Ease(a.m_easing, a.m_endValue - a.m_startValue, tNum, a.m_duration)]

\* Animation::update from the increment of the elapsed time on, for a
\* completion callback that leaves the animation alone.
Finished(b) ==
    IF Completes(b)
    THEN Interpolated([b EXCEPT !.m_complete = TRUE], b.m_duration)
    ELSE Interpolated(b, b.m_elapsed)

\* Animation::update
update(a, deltaTime) ==
    IF ShouldReturnEarly(a) THEN a ELSE Finished(Advanced(a, deltaTime))

\* A mutation of reset: the current value is left where it is.
reset_noRewind(a) == [a EXCEPT !.m_elapsed = 0, !.m_complete = FALSE]

\* Animation::reset
reset(a) ==
    [a EXCEPT !.m_elapsed = 0, !.m_complete = FALSE, !.m_currentValue = a.m_startValue]

\* Animation::reverse
reverse(a) ==
    [a EXCEPT !.m_startValue = a.m_endValue, !.m_endValue = a.m_startValue,
              !.m_elapsed = 0, !.m_complete = FALSE]

\* The frame times update is called with: 0.5 s, 1 s and 1.5 s.
AnimDeltas == {Second \div 2, Second, (3 * Second) \div 2}

\* An animation from 0 to 10 or from 2 to 5, over 2 s or 3 s.
InitAnimation ==
    /\ \E ends \in {<<0, 10 * Unit>>, <<2 * Unit, 5 * Unit>>} :
       \E duration \in {2 * Second, 3 * Second} :
       \E easing \in Easings :
           anim = NewAnimation(ends[1], ends[2], duration, easing)
    /\ animPc = "idle"
    /\ animCall = NoAnimCall
    /\ invoked = 0
    /\ IdleCollision
    /\ IdleModels
    /\ IdleRenderer
    /\ IdleApp
    /\ IdleController
    /\ IdleInput
    /\ IdleCamera

\* The record of a call: every call differs from the one before it.
AnimCalled(name, arg, returned) ==
    [op |-> name, arg |-> arg, ret |-> returned, seq |-> 1 - animCall.seq]

\* A call of Animation::update.  When the update completes the animation
\* and a callback is set, the callback runs before the value is
\* interpolated: the call stands in the callback.
Update(deltaTime) ==
    /\ animPc = "idle"
    /\ IF ShouldReturnEarly(anim)
       THEN /\ animCall' = AnimCalled("update", deltaTime, anim.m_currentValue)
            /\ UNCHANGED <<anim, animPc, invoked>>
       ELSE LET b == Advanced(anim, deltaTime)
            IN  IF Completes(b) /\ b.m_completionCallback
                THEN /\ anim' = [b EXCEPT !.m_complete = TRUE]
                     /\ animPc' = "callback"
                     /\ invoked' = invoked + 1
                     /\ animCall' = AnimCalled("update", deltaTime, animCall.ret)
                ELSE /\ anim' = Finished(b)
                     /\ animCall' = AnimCalled("update", deltaTime, Finished(b).m_currentValue)
                     /\ UNCHANGED <<animPc, invoked>>
    /\ UNCHANGED <<collisionVars, modelVars, rendererVars, appVars, controllerVars, inputVars, cameraVars>>

\* The completion callback returns: update interpolates at t = 1 and
\* returns the value.
CallbackReturns ==
    /\ animPc = "callback"
    /\ anim' = Interpolated(anim, anim.m_duration)
    /\ animPc' = "idle"
    /\ animCall' = AnimCalled("updateReturns", animCall.arg,
                              Interpolated(anim, anim.m_duration).m_currentValue)
    /\ UNCHANGED <<invoked, collisionVars, modelVars, rendererVars, appVars, controllerVars, inputVars, cameraVars>>

\* A call of Animation::reset, from the caller or from the callback.
Reset ==
    /\ anim' = reset(anim)
    /\ invoked' = 0
    /\ animCall' = AnimCalled("reset", 0, animCall.ret)
    /\ UNCHANGED <<animPc, collisionVars, modelVars, rendererVars, appVars, controllerVars, inputVars, cameraVars>>

\* A call of Animation::reverse, from the caller or from the callback.
Reverse ==
    /\ anim' = reverse(anim)
    /\ invoked' = 0
    /\ animCall' = AnimCalled("reverse", 0, animCall.ret)
    /\ UNCHANGED <<animPc, collisionVars, modelVars, rendererVars, appVars, controllerVars, inputVars, cameraVars>>

\* A call of Animation::setPaused.
SetPaused(paused) ==
    /\ animPc = "idle"
    /\ anim' = [anim EXCEPT !.m_paused = paused]
    /\ animCall' = AnimCalled("setPaused", IF paused THEN 1 ELSE 0, animCall.ret)
    /\ UNCHANGED <<animPc, invoked, collisionVars, modelVars, rendererVars, appVars, controllerVars, inputVars, cameraVars>>

\* A call of Animation::onComplete with a callback.
OnComplete ==
    /\ animPc = "idle"
    /\ ~anim.m_completionCallback
    /\ anim' = [anim EXCEPT !.m_completionCallback = TRUE]
    /\ animCall' = AnimCalled("onComplete", 0, animCall.ret)
    /\ UNCHANGED <<animPc, invoked, collisionVars, modelVars, rendererVars, appVars, controllerVars, inputVars, cameraVars>>

NextAnimation ==
    \/ \E deltaTime \in AnimDeltas : Update(deltaTime)
    \/ CallbackReturns
    \/ Reset
    \/ Reverse
    \/ \E paused \in BOOLEAN : SetPaused(paused)
    \/ OnComplete

SpecAnimation == InitAnimation /\ [][NextAnimation]_vars

\* ------------------------------------------------------------------------
\* C11 .. C14: completion, callback, pausing, reset and reverse
\* ------------------------------------------------------------------------

\* C11: in every state a caller can observe, an animation that reports
\* isComplete() has getValue() equal to its end value.
C11_CompleteMeansEndValue ==
    anim.m_complete => anim.m_currentValue = anim.m_endValue

\* The part of C11 that holds: between two calls, outside the completion
\* callback, a complete animation has its end value.
C11_CompleteMeansEndValueBetweenCalls ==
    (animPc = "idle" /\ anim.m_complete) => anim.m_currentValue = anim.m_endValue

\* The step is a call of update / reset / reverse / setPaused.
UpdateStep == animCall'.op = "update" /\ animCall'.seq # animCall.seq

ResetStep == animCall'.op = "reset" /\ animCall'.seq # animCall.seq

ReverseStep == animCall'.op = "reverse" /\ animCall'.seq # animCall.seq

SetPausedStep == animCall'.op = "setPaused" /\ animCall'.seq # animCall.seq

\* C12: between two restarts (reset or reverse) the completion callback is
\* invoked at most once; it is invoked in exactly the update call that
\* takes elapsed / duration from below 1 to 1 or more while a callback is
\* registered, and in no later update call.
C12_CallbackExactlyOnce ==
    /\ [](invoked <= 1)
    /\ [][/\ (UpdateStep /\ anim.m_completionCallback /\ ~anim.m_paused
                 /\ anim.m_elapsed < anim.m_duration
                 /\ anim.m_elapsed + animCall'.arg >= anim.m_duration)
              => invoked' = invoked + 1
          /\ invoked' > invoked
              => /\ UpdateStep
                 /\ invoked' = invoked + 1
                 /\ anim.m_completionCallback
                 /\ ~anim.m_complete /\ anim'.m_complete
                 /\ anim.m_elapsed < anim.m_duration
                 /\ anim'.m_elapsed >= anim'.m_duration]_vars

\* An update call has run the callback, and a later update call was made on
\* the complete animation.
C12_Witness ==
    /\ invoked = 1
    /\ animPc = "idle"
    /\ anim.m_complete
    /\ animCall.op = "update"
    /\ anim.m_elapsed - animCall.arg >= anim.m_duration

\* C13: update called on a complete or paused animation returns the current
\* value, changes neither elapsed time, current value nor the complete
\* flag and invokes no callback; setPaused changes the paused flag only,
\* so that after setPaused(false) an update of a running animation adds its
\* delta to the elapsed time the animation had when it was paused.
C13_FrozenWhileCompleteOrPaused ==
    [][/\ (UpdateStep /\ (anim.m_complete \/ anim.m_paused))
              => /\ anim' = anim
                 /\ animCall'.ret = anim.m_currentValue
                 /\ invoked' = invoked
                 /\ animPc' = "idle"
       /\ SetPausedStep
              => anim' = [anim EXCEPT !.m_paused = (animCall'.arg = 1)]
       /\ (UpdateStep /\ ~anim.m_complete /\ ~anim.m_paused)
              => anim'.m_elapsed = anim.m_elapsed + animCall'.arg]_vars

\* update was called on a paused animation that is under way and not
\* complete.
C13_Witness ==
    /\ animCall.op = "update"
    /\ anim.m_paused
    /\ ~anim.m_complete
    /\ anim.m_elapsed > 0
    /\ animCall.ret = anim.m_currentValue
    /\ anim.m_currentValue # anim.m_startValue

\* The animation a, resumed and updated until it is complete.
RunToCompletion(a) ==
    update([a EXCEPT !.m_paused = FALSE], a.m_duration)

\* C14: reset sets elapsed to 0, clears the complete flag and rewinds the
\* current value to the start value; reverse swaps start and end, sets
\* elapsed to 0 and clears the complete flag; so an animation run to
\* completion, reversed and run to completion again has its original start
\* value, and reversing twice restores the start/end pair.
C14_ResetAndReverse ==
    /\ [][/\ ResetStep
                 => anim' = [anim EXCEPT !.m_elapsed = 0, !.m_complete = FALSE,
                                         !.m_currentValue = anim.m_startValue]
          /\ ReverseStep
                 => anim' = [anim EXCEPT !.m_startValue = anim.m_endValue,
                                         !.m_endValue = anim.m_startValue,
                                         !.m_elapsed = 0, !.m_complete = FALSE]]_vars
    /\ [](LET again == RunToCompletion(reverse(RunToCompletion(anim)))
              twice == reverse(reverse(anim))
          IN  /\ again.m_complete
              /\ again.m_currentValue = anim.m_startValue
              /\ twice.m_startValue = anim.m_startValue
              /\ twice.m_endValue = anim.m_endValue)

\* The animation was run to completion, reversed and run to completion
\* again: it is complete at the value it started from.
C14_Witness ==
    /\ anim.m_complete
    /\ animPc = "idle"
    /\ anim.m_startValue > anim.m_endValue
    /\ anim.m_currentValue = anim.m_endValue
    /\ anim.m_elapsed >= anim.m_duration

\* ------------------------------------------------------------------------
\* Camera: free roam, orbit and driver seat
\* ------------------------------------------------------------------------

\* Angles are whole degrees; sines, cosines and unit vectors are kept in
\* thousandths.
TrigOne == 10 * 10 * 10

\* 1000 * sin of 0, 1, .. 90 degrees, rounded.
SinTable ==
    <<0, 17, 35, 52, 70, 87, 105, 122, 139, 156,
      174, 191, 208, 225, 242, 259, 276, 292, 309, 326,
      342, 358, 375, 391, 407, 423, 438, 454, 469, 485,
      500, 515, 530, 545, 559, 574, 588, 602, 616, 629,
      643, 656, 669, 682, 695, 707, 719, 731, 743, 755,
      766, 777, 788, 799, 809, 819, 829, 839, 848, 857,
      866, 875, 883, 891, 899, 906, 914, 921, 927, 934,
      940, 946, 951, 956, 961, 966, 970, 974, 978, 982,
      985, 988, 990, 993, 995, 996, 998, 999, 999, 1000,
      1000>>

\* 1000 * sin(glm::radians(d))
SinDeg(d) ==
    LET r == d % 360
    IN  IF r <= 90 THEN SinTable[r + 1]
        ELSE IF r <= 180 THEN SinTable[180 - r + 1]
        ELSE IF r <= 270 THEN 0 - SinTable[r - 180 + 1]
        ELSE 0 - SinTable[360 - r + 1]

\* 1000 * cos(glm::radians(d))
CosDeg(d) == SinDeg(d + 90)

\* A mutation of std::clamp: the upper limit is not applied.
Clamp_noUpper(v, lo, hi) == IF v < lo THEN lo ELSE v

\* std::clamp
Clamp(v, lo, hi) == IF v < lo THEN lo ELSE IF hi < v THEN hi ELSE v

\* glm::normalize, in thousandths; the vector is taken in units of `scale`
\* so that the squares of a long vector fit.
Normalized(v, scale) ==
    LET w   == <<v[1] \div scale, v[2] \div scale, v[3] \div scale>>
        len == Length(w)
    IN  <<(w[1] * TrigOne) \div len, (w[2] * TrigOne) \div len, (w[3] * TrigOne) \div len>>

\* The scale at which a vector between camera and orbit target is normalized:
\* hundredths of a unit.
OrbitScale == Unit \div 100

\* v * k / TrigOne, for a vector or factor k in thousandths.
Thousandths(v, k) == <<(v[1] * k) \div TrigOne, (v[2] * k) \div TrigOne, (v[3] * k) \div TrigOne>>

\* Camera::updateCameraVectors: the front vector of yaw and pitch.
FrontOf(yaw, pitch) ==
    Normalized(<<(CosDeg(yaw) * CosDeg(pitch)) \div TrigOne,
                 SinDeg(pitch),
                 (SinDeg(yaw) * CosDeg(pitch)) \div TrigOne>>, 1)

\* m_right = normalize(cross(m_front, m_worldUp)) with m_worldUp = (0, 1, 0);
\* it is recomputed wherever m_front is, and so is kept as a function of it.
RightOf(front) == Normalized(<<0 - front[3], 0, front[1]>>, 1)

\* Camera::updateCameraVectors
updateCameraVectors(c) == [c EXCEPT !.m_front = FrontOf(c.m_yaw, c.m_pitch)]

\* Camera::updateOrbitPosition: the offset of the camera from the target.
OrbitOffset(radius, yaw, pitch) ==
    LET flat == (radius * CosDeg(pitch)) \div TrigOne
    IN  <<(flat * CosDeg(yaw)) \div TrigOne,
          (radius * SinDeg(pitch)) \div TrigOne,
          (flat * SinDeg(yaw)) \div TrigOne>>

\* Camera::updateOrbitPosition
updateOrbitPosition(c) ==
    LET position == VAdd(c.m_orbitTarget, OrbitOffset(c.m_orbitRadius, c.m_orbitYaw, c.m_orbitPitch))
    IN  [c EXCEPT !.m_position = position,
                  !.m_front = Normalized(VSub(c.m_orbitTarget, position), OrbitScale)]

\* Camera::Camera()
NewCamera ==
    [m_position           |-> Vec(0, 2 * Unit, 5 * Unit),
     m_front              |-> FrontOf(0 - 90, 0),
     m_yaw                |-> 0 - 90,
     m_pitch              |-> 0,
     m_fov                |-> 45,
     m_mode               |-> "FREE_ROAM",
     m_orbitTarget        |-> Zero3,
     m_orbitRadius        |-> 5 * Unit,
     m_orbitYaw           |-> 0,
     m_orbitPitch         |-> 20,
     m_driverSeatPosition |-> Vec(0, Unit, Unit \div 2)]

\* m_driverSeatYawLimit(120.0f) and m_driverSeatPitchLimit(45.0f)
m_driverSeatYawLimit == 120

m_driverSeatPitchLimit == 45

\* A mutation of setMode: the mode is set and nothing else.
setMode_modeOnly(c, mode) == [c EXCEPT !.m_mode = mode]

\* Camera::setMode
setMode(c, mode) ==
    LET d == [c EXCEPT !.m_mode = mode]
    IN  CASE mode = "FREE_ROAM"   -> d
          [] mode = "ORBIT"       -> updateOrbitPosition(d)
          [] mode = "DRIVER_SEAT" ->
                 updateCameraVectors([d EXCEPT !.m_position = d.m_driverSeatPosition,
                                               !.m_yaw = 0 - 90,
                                               !.m_pitch = 0])

\* Camera::setOrbitTarget
setOrbitTarget(c, target) ==
    LET d == [c EXCEPT !.m_orbitTarget = target]
    IN  IF d.m_mode = "ORBIT" THEN updateOrbitPosition(d) ELSE d

\* Camera::processKeyboard; velocity = m_movementSpeed (5) * deltaTime, so a
\* step of velocity units is 5 * Unit * deltaTime / Second long, velocity *
\* 20 degrees are 100 * deltaTime / Second degrees, and velocity * 2 units
\* are 10 * Unit * deltaTime / Second.
processKeyboard(c, forward, right, up, deltaTime) ==
    LET step == (5 * Unit * deltaTime) \div Second
    IN  CASE c.m_mode = "FREE_ROAM" ->
                 [c EXCEPT !.m_position =
                     VAdd(VAdd(VAdd(c.m_position, Thousandths(c.m_front, forward * step)),
                               Thousandths(RightOf(c.m_front), right * step)),
                          Vec(0, up * step, 0))]
          [] c.m_mode = "ORBIT" ->
                 updateOrbitPosition(
                     [c EXCEPT !.m_orbitYaw = @ + right * ((100 * deltaTime) \div Second),
                               !.m_orbitPitch = Clamp(@ + up * ((100 * deltaTime) \div Second),
                                                      0 - 80, 80),
                               !.m_orbitRadius = Clamp(@ - forward * ((10 * Unit * deltaTime) \div Second),
                                                       2 * Unit, 20 * Unit)])
          [] c.m_mode = "DRIVER_SEAT" -> c

\* Camera::processMouseMovement; the offsets are in pixels and
\* m_mouseSensitivity is 0.1 degree per pixel.
processMouseMovement(c, xoffset, yoffset, constrainPitch) ==
    LET x == xoffset \div 10
        y == yoffset \div 10
    IN  CASE c.m_mode = "FREE_ROAM" ->
                 updateCameraVectors(
                     [c EXCEPT !.m_yaw = @ + x,
                               !.m_pitch = IF constrainPitch THEN Clamp(@ + y, 0 - 89, 89)
                                           ELSE @ + y])
          [] c.m_mode = "ORBIT" ->
                 updateOrbitPosition(
                     [c EXCEPT !.m_orbitYaw = @ - x,
                               !.m_orbitPitch = Clamp(@ + y, 0 - 80, 80)])
          [] c.m_mode = "DRIVER_SEAT" ->
                 updateCameraVectors(
                     [c EXCEPT !.m_yaw = Clamp(@ + x, 0 - 90 - m_driverSeatYawLimit,
                                               0 - 90 + m_driverSeatYawLimit),
                               !.m_pitch = Clamp(@ + y, 0 - m_driverSeatPitchLimit,
                                                 m_driverSeatPitchLimit)])

\* Camera::processMouseScroll
processMouseScroll(c, yoffset) ==
    CASE c.m_mode = "FREE_ROAM"   -> [c EXCEPT !.m_fov = Clamp(@ - yoffset, 1, 90)]
      [] c.m_mode = "ORBIT"       ->
             updateOrbitPosition(
                 [c EXCEPT !.m_orbitRadius = Clamp(@ - (yoffset * Unit) \div 2,
                                                   2 * Unit, 20 * Unit)])
      [] c.m_mode = "DRIVER_SEAT" -> [c EXCEPT !.m_fov = Clamp(@ - yoffset, 30, 60)]

\* Camera::setYaw
setYaw(c, yaw) == updateCameraVectors([c EXCEPT !.m_yaw = yaw])

\* Camera::setPitch
setPitch(c, pitch) == updateCameraVectors([c EXCEPT !.m_pitch = Clamp(pitch, 0 - 89, 89)])

\* Camera::setOrbitRadius
setOrbitRadius(c, radius) ==
    LET d == [c EXCEPT !.m_orbitRadius = Clamp(radius, Unit, 50 * Unit)]
    IN  IF d.m_mode = "ORBIT" THEN updateOrbitPosition(d) ELSE d

\* Camera::setPosition
cameraSetPosition(c, position) == [c EXCEPT !.m_position = position]

\* The number of calls made on the camera in a run.
MaxCamCalls == 3

CameraModes == {"FREE_ROAM", "ORBIT", "DRIVER_SEAT"}

InitCamera ==
    /\ cam = NewCamera
    /\ camCall = NoCamCall
    /\ nCamCalls = 0
    /\ IdleCollision
    /\ IdleModels
    /\ IdleRenderer
    /\ IdleApp
    /\ IdleController
    /\ IdleInput
    /\ IdleAnim

\* A call on the camera: its state afterwards is `after`.
CameraCall(called, after) ==
    /\ nCamCalls < MaxCamCalls
    /\ cam' = after
    /\ camCall' = called
    /\ nCamCalls' = nCamCalls + 1
    /\ UNCHANGED <<collisionVars, modelVars, rendererVars, appVars, controllerVars, inputVars, animVars>>

SetMode(mode) == CameraCall([op |-> "setMode", mode |-> mode], setMode(cam, mode))

SetOrbitTarget(target) ==
    CameraCall([op |-> "setOrbitTarget"], setOrbitTarget(cam, target))

ProcessKeyboard(forward, right, up, deltaTime) ==
    CameraCall([op |-> "processKeyboard"], processKeyboard(cam, forward, right, up, deltaTime))

ProcessMouseMovement(xoffset, yoffset, constrainPitch) ==
    CameraCall([op |-> "processMouseMovement", constrainPitch |-> constrainPitch],
               processMouseMovement(cam, xoffset, yoffset, constrainPitch))

ProcessMouseScroll(yoffset) ==
    CameraCall([op |-> "processMouseScroll"], processMouseScroll(cam, yoffset))

SetYaw(yaw) == CameraCall([op |-> "setYaw"], setYaw(cam, yaw))

SetPitch(pitch) == CameraCall([op |-> "setPitch"], setPitch(cam, pitch))

SetOrbitRadius(radius) == CameraCall([op |-> "setOrbitRadius"], setOrbitRadius(cam, radius))

CameraSetPosition(position) ==
    CameraCall([op |-> "setPosition"], cameraSetPosition(cam, position))

\* The keys held in a frame of 0.1 s: forward, back, right and up.
KeyboardInputs == {<<1, 0, 0>>, <<0 - 1, 0, 0>>, <<0, 1, 0>>, <<0, 0, 1>>}

\* Mouse movements in pixels: far up, far down, and to the right and up.
MouseOffsets == {<<0, 1000>>, <<0, 0 - 1000>>, <<300, 200>>}

NextCamera ==
    \/ \E mode \in CameraModes : SetMode(mode)
    \/ SetOrbitTarget(Vec(Unit, 0, 2 * Unit))
    \/ \E k \in KeyboardInputs : ProcessKeyboard(k[1], k[2], k[3], Second \div 10)
    \/ \E o \in MouseOffsets : \E constrainPitch \in BOOLEAN :
           ProcessMouseMovement(o[1], o[2], constrainPitch)
    \/ \E yoffset \in {4, 0 - 40} : ProcessMouseScroll(yoffset)
    \/ \E yaw \in {100} : SetYaw(yaw)
    \/ \E pitch \in {80} : SetPitch(pitch)
    \/ \E radius \in {30 * Unit, Unit \div 2} : SetOrbitRadius(radius)
    \/ CameraSetPosition(Vec(0, 2 * Unit, 5 * Unit))

SpecCamera == InitCamera /\ [][NextCamera]_vars

\* ------------------------------------------------------------------------
\* C15 .. C19: the limits and the derived members of each camera mode
\* ------------------------------------------------------------------------

\* The step is a call of the camera operation `name`.
CameraStep(name) == nCamCalls' = nCamCalls + 1 /\ camCall'.op = name

\* C15: in FREE_ROAM mode, after every processMouseMovement call with the
\* pitch constraint (the default) the pitch lies within [-89, 89], whatever
\* the mouse deltas of this and of earlier calls were.
C15_FreeRoamPitchClamped ==
    [][(CameraStep("processMouseMovement") /\ camCall'.constrainPitch
            /\ cam.m_mode = "FREE_ROAM")
        => (cam'.m_pitch >= 0 - 89 /\ cam'.m_pitch <= 89)]_vars

\* Large upward mouse movements have been applied in FREE_ROAM mode, the
\* last with the constraint: the pitch stands at the limit.
C15_Witness ==
    /\ cam.m_mode = "FREE_ROAM"
    /\ camCall.op = "processMouseMovement"
    /\ camCall.constrainPitch
    /\ cam.m_pitch = 89
    /\ nCamCalls >= 2

\* C16: whenever the camera is in ORBIT mode, the orbit radius lies within
\* [2, 20] and the orbit pitch within [-80, 80].
C16_OrbitLimits ==
    cam.m_mode = "ORBIT" =>
        /\ cam.m_orbitRadius >= 2 * Unit /\ cam.m_orbitRadius <= 20 * Unit
        /\ cam.m_orbitPitch >= 0 - 80 /\ cam.m_orbitPitch <= 80

\* The part of C16 that holds: the limits setOrbitRadius itself applies.
C16_OrbitLimitsOfSetter ==
    cam.m_mode = "ORBIT" =>
        /\ cam.m_orbitRadius >= Unit /\ cam.m_orbitRadius <= 50 * Unit
        /\ cam.m_orbitPitch >= 0 - 80 /\ cam.m_orbitPitch <= 80

\* C17: whenever the camera is in ORBIT mode, its position is the orbit
\* target plus radius * (cos(pitch) cos(yaw), sin(pitch), cos(pitch)
\* sin(yaw)) for the current orbit parameters, and its front vector points
\* from the position at the target.
C17_OrbitPositionDerived ==
    cam.m_mode = "ORBIT" =>
        /\ cam.m_position = VAdd(cam.m_orbitTarget,
                                 OrbitOffset(cam.m_orbitRadius, cam.m_orbitYaw, cam.m_orbitPitch))
        /\ cam.m_front = Normalized(VSub(cam.m_orbitTarget, cam.m_position), OrbitScale)

\* C18: whenever the camera is in DRIVER_SEAT mode, yaw lies within
\* [-210, 30] and pitch within [-45, 45], and processKeyboard in this mode
\* leaves the position unchanged.
C18_DriverSeatLimits ==
    /\ [](cam.m_mode = "DRIVER_SEAT" =>
              /\ cam.m_yaw >= 0 - 210 /\ cam.m_yaw <= 30
              /\ cam.m_pitch >= 0 - 45 /\ cam.m_pitch <= 45)
    /\ [][(CameraStep("processKeyboard") /\ cam.m_mode = "DRIVER_SEAT")
              => cam'.m_position = cam.m_position]_vars

\* The part of C18 that holds: processKeyboard in DRIVER_SEAT mode leaves
\* the camera as it is.
C18_DriverSeatKeyboard ==
    [][(CameraStep("processKeyboard") /\ cam.m_mode = "DRIVER_SEAT") => cam' = cam]_vars

Ray(origin, direction) == [origin |-> origin, direction |-> direction]

\* std::numeric_limits<float>::max(), above every parameter of the model
FloatMax == 1000 * 1000 * 1000

\* |direction[i]| < 0.0001f: the ray runs parallel to the slab of axis i
ParallelToSlab(ray, i) ==
    (IF ray.direction[i] < 0 THEN 0 - ray.direction[i] ELSE ray.direction[i]) * 10000 < Unit

\* (bound - origin[i]) * (1 / direction[i]), the parameter at a slab's face
SlabT(ray, i, bound) == ((bound - ray.origin[i]) * Unit) \div ray.direction[i]

\* The loop of testRayVsAABB from axis i on, with tmin and tmax so far
RECURSIVE SlabsFrom(_, _, _, _, _)
SlabsFrom(ray, box, i, tmin, tmax) ==
    IF i > 3 THEN [hit |-> TRUE, t |-> tmin]
    ELSE IF ParallelToSlab(ray, i)
         THEN IF ray.origin[i] < box.min[i] \/ ray.origin[i] > box.max[i]
              THEN [hit |-> FALSE, t |-> 0]
              ELSE SlabsFrom(ray, box, i + 1, tmin, tmax)
         ELSE LET a == SlabT(ray, i, box.min[i])
                  b == SlabT(ray, i, box.max[i])
                  t1 == Min2(a, b)
                  t2 == Max2(a, b)
                  lo == Max2(tmin, t1)
                  hi == Min2(tmax, t2)
              IN  IF lo > hi THEN [hit |-> FALSE, t |-> 0]
                  ELSE SlabsFrom(ray, box, i + 1, lo, hi)

\* Collision::testRayVsAABB
testRayVsAABB(ray, box) == SlabsFrom(ray, box, 1, 0, FloatMax)

\* A later box replaces the best hit also when it is exactly as near
Closer_orEqual(t, hitT) == t <= hitT /\ t >= 0

\* if (t < hitT && t >= 0)
Closer(t, hitT) == t < hitT /\ t >= 0

\* The loop of CollisionWorld::raycast from box k on (k counts from 1)
RECURSIVE RaycastFrom(_, _, _, _)
RaycastFrom(boxes, k, ray, best) ==
    IF k > Len(boxes) THEN best
    ELSE LET r == testRayVsAABB(ray, boxes[k])
         IN  IF r.hit /\ Closer(r.t, best.hitT)
             THEN RaycastFrom(boxes, k + 1, ray,
                              [hit |-> TRUE, hitT |-> r.t, hitIndex |-> k - 1])
             ELSE RaycastFrom(boxes, k + 1, ray, best)

\* CollisionWorld::raycast; hitIndex is the caller's variable and keeps its
\* value when nothing is hit
raycast(boxes, ray, maxDistance, hitIndex) ==
    RaycastFrom(boxes, 1, ray, [hit |-> FALSE, hitT |-> maxDistance, hitIndex |-> hitIndex])

\* The box of the documented ray hit
ExampleBox == AABB(Vec(0 - Unit, 0, 0 - Unit), Vec(Unit, Unit, Unit))

\* The ray of the documented ray hit
ExampleRay == Ray(Vec(0, 5 * Unit, 0), Vec(0, 0 - Unit, 0))

\* The static boxes of the ray cast: the documented box, one with the same
\* top face, a taller one, one beside it, and a plate of zero thickness
RayBoxes ==
    {ExampleBox,
     AABB(Vec(0 - 2 * Unit, 0 - Unit, 0 - Unit), Vec(2 * Unit, Unit, Unit)),
     AABB(Vec(0 - Unit, 0, 0 - Unit), Vec(Unit, 2 * Unit, Unit)),
     AABB(Vec(2 * Unit, 0, 0 - Unit), Vec(4 * Unit, Unit, Unit)),
     AABB(Vec(0 - Unit, 3 * Unit, 0 - Unit), Vec(Unit, 3 * Unit, Unit))}

\* Ray origins: above the boxes, beside them, and on a face of a box
RayOrigins ==
    {Vec(0, 5 * Unit, 0), Vec(0 - 3 * Unit, 5 * Unit, 0), Vec(0 - 3 * Unit, Unit, 0),
     Vec(0, Unit, 0)}

\* Unit directions: along the axes, and slanted in the ratio 3 : 4 : 5
RayDirections ==
    {Vec(0, 0 - Unit, 0), Vec(0, Unit, 0), Vec(Unit, 0, 0), Vec(0 - Unit, 0, 0),
     Vec((3 * Unit) \div 5, 0 - (4 * Unit) \div 5, 0)}

\* Largest distances asked for, among them the distance of a hit itself
MaxDistances == {0, 4 * Unit, 5 * Unit, 100 * Unit}

InitRaycast == InitCollisionWorld

\* A call of CollisionWorld::raycast
Raycast(ray, maxDistance, hitIndex) ==
    /\ call' = [op |-> "raycast", box |-> AABB(Zero3, Zero3), pos |-> Zero3,
                ray |-> ray, maxDistance |-> maxDistance, hitIndex |-> hitIndex]
    /\ LET r == raycast(m_staticBoxes, ray, maxDistance, hitIndex)
       IN  ret' = [NoRet EXCEPT !.hit = r.hit, !.hitT = r.hitT, !.index = r.hitIndex]
    /\ UNCHANGED <<m_staticBoxes, modelVars, rendererVars, appVars, controllerVars, inputVars, animVars, cameraVars>>

NextRaycast ==
    \/ \E box \in RayBoxes : addStaticAABB(box)
    \/ \E origin \in RayOrigins, direction \in RayDirections,
          maxDistance \in MaxDistances :
            Raycast(Ray(origin, direction), maxDistance, MaxStatic)
    \/ ClearWorld

SpecRaycast == InitRaycast /\ [][NextRaycast]_vars

\* ------------------------------------------------------------------------
\* C20: what the ray cast reports
\* ------------------------------------------------------------------------

\* The point of the ray at parameter t lies in the box (faces included)
PointInBox(ray, box, t) ==
    \A i \in Axes :
        /\ (box.min[i] - ray.origin[i]) * Unit <= t * ray.direction[i]
        /\ t * ray.direction[i] <= (box.max[i] - ray.origin[i]) * Unit

\* The parameters at which the ray can enter the box: its start, and
\* where it crosses the plane of a face
EntryCandidates(ray, box) ==
    {0} \cup {SlabT(ray, i, box.min[i]) : i \in {j \in Axes : ray.direction[j] # 0}}
        \cup {SlabT(ray, i, box.max[i]) : i \in {j \in Axes : ray.direction[j] # 0}}

\* The parameters t >= 0 among them at which the ray is in the box
HitParameters(ray, box) ==
    {t \in EntryCandidates(ray, box) : t >= 0 /\ PointInBox(ray, box, t)}

\* The smallest parameter at which the ray is in the box
FirstHit(ray, box) ==
    CHOOSE t \in HitParameters(ray, box) : \A u \in HitParameters(ray, box) : t <= u

\* The boxes (counted from 1) the ray hits before maxDistance
BoxesHit(boxes, ray, maxDistance) ==
    {k \in 1..Len(boxes) :
        /\ HitParameters(ray, boxes[k]) # {}
        /\ FirstHit(ray, boxes[k]) < maxDistance}

LightingOf(log) == log[CHOOSE i \in 1..Len(log) : log[i].op = "applyLighting"]

\* The point / spot lights a log of endFrame applied, in slot order
AppliedPointLights(log) == SubSeq(LightingOf(log).pointLights, 1, LightingOf(log).numPointLights)

AppliedSpotLights(log) == SubSeq(LightingOf(log).spotLights, 1, LightingOf(log).numSpotLights)

\* The lights numbered from + 1 .. to, but the first cap of them at most
FirstHanded(from, to, cap) == [i \in 1..Min2(to - from, cap) |-> from + i]

\* The step is a call of addPointLight / addSpotLight
AddPointLightStep == handed'.point = handed.point + 1

AddSpotLightStep == handed'.spot = handed.spot + 1

\* The renderer never holds more than 4 point and 2 spot lights
LightsWithinCap ==
    /\ Len(m_pointLights) <= MAX_POINT_LIGHTS
    /\ Len(m_spotLights) <= MAX_SPOT_LIGHTS

\* An add call at the cap leaves the list as it was, one below the cap
\* appends the light; the other list is left alone
AddAtCapDropped ==
    /\ AddPointLightStep =>
          /\ m_pointLights' = IF Len(m_pointLights) < MAX_POINT_LIGHTS
                              THEN Append(m_pointLights, handed'.point)
                              ELSE m_pointLights
          /\ m_spotLights' = m_spotLights
    /\ AddSpotLightStep =>
          /\ m_spotLights' = IF Len(m_spotLights) < MAX_SPOT_LIGHTS
                             THEN Append(m_spotLights, handed'.spot)
                             ELSE m_spotLights
          /\ m_pointLights' = m_pointLights

\* C21 as stated: at every point the renderer holds at most 4 point and 2
\* spot lights, an add call at the cap leaves the list unchanged, and the
\* lights endFrame applies are the first 4 point and first 2 spot lights
\* added since beginFrame, in the order added.
C21_FirstLightsSinceBeginFrame ==
    /\ []LightsWithinCap
    /\ [][/\ AddAtCapDropped
          /\ EndFrameStep =>
                /\ AppliedPointLights(glLog') = FirstHanded(0, handed.point, MAX_POINT_LIGHTS)
                /\ AppliedSpotLights(glLog') = FirstHanded(0, handed.spot, MAX_SPOT_LIGHTS)]_vars

\* C21 (amended): the same, but the lights endFrame applies are the first
\* 4 point and first 2 spot lights added since the light lists were last
\* emptied, by beginFrame or by clearLights.
C21_FirstLightsSinceCleared ==
    /\ []LightsWithinCap
    /\ [][/\ AddAtCapDropped
          /\ EndFrameStep =>
                /\ AppliedPointLights(glLog') =
                       FirstHanded(handed.pointCleared, handed.point, MAX_POINT_LIGHTS)
                /\ AppliedSpotLights(glLog') =
                       FirstHanded(handed.spotCleared, handed.spot, MAX_SPOT_LIGHTS)]_vars

\* endFrame applied four point lights and two spot lights of a frame that
\* was handed five and three.
C21_Witness ==
    /\ AfterEndFrame
    /\ handed.point = MAX_POINT_LIGHTS + 1
    /\ handed.spot = MAX_SPOT_LIGHTS + 1
    /\ handed.pointCleared = 0
    /\ handed.spotCleared = 0
    /\ AppliedPointLights(glLog) = <<1, 2, 3, 4>>
    /\ AppliedSpotLights(glLog) = <<1, 2>>


\* The step is a call of beginFrame: its log is the clear of the screen.
BeginFrameStep == glLog' = <<GLCall("clear")>>

\* The lights of a list are numbered within 1 .. n, each once
HandedOnce(lights, n) ==
    /\ \A i \in 1..Len(lights) : lights[i] \in 1..n
    /\ \A i, j \in 1..Len(lights) : i # j => lights[i] # lights[j]

\* C22: after beginFrame the opaque and transparent command lists and the
\* point and spot light lists are empty and the directional light slot is
\* unset, so the next endFrame executes no more commands than were
\* submitted since, and applies only lights that were added since.
C22_BeginFrameDiscards ==
    [][/\ BeginFrameStep =>
            /\ m_opaqueCommands' = <<>>
            /\ m_transparentCommands' = <<>>
            /\ m_pointLights' = <<>>
            /\ m_spotLights' = <<>>
            /\ m_directionalLight' = NullLight
       /\ EndFrameStep =>
            /\ Cardinality({i \in 1..Len(glLog') : glLog'[i].op = "draw"}) <= handed.commands
            /\ HandedOnce(AppliedPointLights(glLog'), handed.point)
            /\ HandedOnce(AppliedSpotLights(glLog'), handed.spot)
            /\ LightingOf(glLog').dirLight =
                   IF m_directionalLight = NullLight THEN SlotDisabled ELSE m_directionalLight]_vars

\* The glass pane was drawn by an earlier endFrame (its matrix is cached);
\* the frame after was handed the body alone, one point light and no
\* directional light, and endFrame drew and applied just these.
C22_Witness ==
    /\ AfterEndFrame
    /\ ~models["glass"].m_modelMatrixDirty
    /\ \A i \in 1..Len(glLog) : glLog[i].op = "draw" => glLog[i].cmd.model = "body"
    /\ handed.commands = 1
    /\ handed.point = 1
    /\ handed.pointCleared = 0
    /\ Cardinality({i \in 1..Len(glLog) : glLog[i].op = "draw"}) = 1
    /\ AppliedPointLights(glLog) = <<1>>
    /\ LightingOf(glLog).dirLight = SlotDisabled


\* The places before i at which a log sets the depth mask / switches blending
DepthMaskCallsBefore(log, i) == {k \in 1..(i - 1) : log[k].op = "glDepthMask"}

BlendCallsBefore(log, i) ==
    {k \in 1..(i - 1) : log[k].op \in {"glEnable", "glDisable"} /\ log[k].cap = "GL_BLEND"}

\* The last of a non-empty set of places
LastOf(places) == CHOOSE k \in places : \A j \in places : j <= k

\* Depth-write is known to be on / off when the call at place i of a log is issued
DepthWriteIs(log, i, flag) ==
    /\ DepthMaskCallsBefore(log, i) # {}
    /\ log[LastOf(DepthMaskCallsBefore(log, i))].flag = flag

\* Blending is known to be on / off when the call at place i of a log is issued
BlendIs(log, i, flag) ==
    /\ BlendCallsBefore(log, i) # {}
    /\ (log[LastOf(BlendCallsBefore(log, i))].op = "glEnable") = flag

\* C27: during endFrame every opaque command is drawn with depth-write
\* enabled and blending disabled, every transparent command with
\* depth-write disabled and blending enabled, and when endFrame returns
\* depth-write is enabled and blending is disabled again.
C27_PassState ==
    [][EndFrameStep =>
        /\ \A i \in OpaqueDrawsAt(glLog') :
              DepthWriteIs(glLog', i, TRUE) /\ BlendIs(glLog', i, FALSE)
        /\ \A i \in TransparentDrawsAt(glLog') :
              DepthWriteIs(glLog', i, FALSE) /\ BlendIs(glLog', i, TRUE)
        /\ DepthWriteIs(glLog', Len(glLog') + 1, TRUE)
        /\ BlendIs(glLog', Len(glLog') + 1, FALSE)]_vars

\* endFrame drew an opaque and two transparent commands, and left
\* depth-write on and blending off.
C27_Witness ==
    /\ AfterEndFrame
    /\ Cardinality(OpaqueDrawsAt(glLog)) = 1
    /\ Cardinality(TransparentDrawsAt(glLog)) = 2
    /\ DepthWriteIs(glLog, Len(glLog) + 1, TRUE)
    /\ BlendIs(glLog, Len(glLog) + 1, FALSE)


\* ------------------------------------------------------------------------
\* AnimationController: animations held in a vector and named by index
\* ------------------------------------------------------------------------

\* Most animations added between two calls of clear
MaxAnimations == 3

\* nullptr, as getAnimation returns it
NullAnimation == 0 - 1

\* No animation has been added since the last clear
NoneIssued == [count |-> 0, at |-> <<>>]

\* std::remove_if with erase: the elements that are not complete, in order
RECURSIVE KeepRunning(_, _)
KeepRunning(animations, kept) ==
    IF animations = <<>> THEN <<>>
    ELSE (IF Head(animations).m_complete THEN <<>> ELSE <<Head(kept)>>)
             \o KeepRunning(Tail(animations), Tail(kept))

\* AnimationController::getAnimation: the place of the animation it
\* returns a pointer to, or NullAnimation
getAnimation(animations, id) ==
    IF id < Len(animations) THEN id + 1 ELSE NullAnimation

\* The animations handed to the controller: from 0 to 10 over 1 s or 2 s
ControllerAnimations ==
    {NewAnimation(0, 10 * Unit, duration, "linear") : duration \in {Second, 2 * Second}}

InitController ==
    /\ m_animations = <<>>
    /\ issued = NoneIssued
    /\ ctrlCall = NoCtrlCall
    /\ IdleCollision
    /\ IdleModels
    /\ IdleRenderer
    /\ IdleApp
    /\ IdleAnim
    /\ IdleCamera
    /\ IdleInput

\* AnimationController::addAnimation
AddAnimation(animation) ==
    /\ issued.count < MaxAnimations
    /\ m_animations' = Append(m_animations, animation)
    /\ issued' = [count |-> issued.count + 1,
                  at    |-> Append(issued.at, Len(m_animations') - 1)]
    /\ ctrlCall' = [op |-> "addAnimation", ret |-> Len(m_animations') - 1]
    /\ UNCHANGED <<collisionVars, modelVars, rendererVars, appVars, animVars, cameraVars, inputVars>>

\* AnimationController::update
ControllerUpdate(deltaTime) ==
    /\ m_animations' = [k \in 1..Len(m_animations) |-> update(m_animations[k], deltaTime)]
    /\ ctrlCall' = [op |-> "update"]
    /\ UNCHANGED <<issued, collisionVars, modelVars, rendererVars, appVars, animVars, cameraVars,
                   inputVars>>

\* AnimationController::getAnimation; returned is the id that addAnimation
\* gave for the animation pointed to
GetAnimation(id) ==
    /\ LET k == getAnimation(m_animations, id)
       IN  ctrlCall' = [op  |-> "getAnimation",
                        id  |-> id,
                        ret |-> IF k = NullAnimation THEN NullAnimation ELSE issued.at[k]]
    /\ UNCHANGED <<m_animations, issued, collisionVars, modelVars, rendererVars, appVars,
                   animVars, cameraVars, inputVars>>

\* AnimationController::cleanupCompleted
CleanupCompleted ==
    /\ m_animations' = KeepRunning(m_animations, m_animations)
    /\ issued' = [issued EXCEPT !.at = KeepRunning(m_animations, issued.at)]
    /\ ctrlCall' = [op |-> "cleanupCompleted"]
    /\ UNCHANGED <<collisionVars, modelVars, rendererVars, appVars, animVars, cameraVars, inputVars>>

\* AnimationController::clear
ControllerClear ==
    /\ m_animations' = <<>>
    /\ issued' = NoneIssued
    /\ ctrlCall' = [op |-> "clear"]
    /\ UNCHANGED <<collisionVars, modelVars, rendererVars, appVars, animVars, cameraVars, inputVars>>

NextController ==
    \/ \E animation \in ControllerAnimations : AddAnimation(animation)
    \/ ControllerUpdate(Second)
    \/ \E id \in 0..MaxAnimations : GetAnimation(id)
    \/ CleanupCompleted
    \/ ControllerClear

SpecController == InitController /\ [][NextController]_vars

\* ------------------------------------------------------------------------
\* C23: the ids of the controller's animations
\* ------------------------------------------------------------------------

\* C23: the id returned by addAnimation keeps identifying the animation it
\* was returned for: getAnimation(id) returns that same animation after
\* any sequence of addAnimation, update and cleanupCompleted calls, until
\* clear is called; with an id that identifies no animation it returns
\* null.
C23_IdsStable ==
    ctrlCall.op = "getAnimation" =>
        ctrlCall.ret = IF \E k \in 1..Len(issued.at) : issued.at[k] = ctrlCall.id
                       THEN ctrlCall.id
                       ELSE NullAnimation

\* Without cleanupCompleted since the last clear, the ids are stable.
C23_IdsStableUntilCleanup ==
    (ctrlCall.op = "getAnimation" /\ Len(issued.at) = issued.count) =>
        ctrlCall.ret = IF ctrlCall.id < issued.count THEN ctrlCall.id ELSE NullAnimation


\* ------------------------------------------------------------------------
\* Input in the frame loop: update, processing, pollEvents
\* ------------------------------------------------------------------------

\* The keys of the specification, GLFW_KEY_W and GLFW_KEY_O
Keys == {"W", "O"}

\* A key without an entry in a key state map
NoEntry == "none"

\* setupDefaultBindings: the keys of two of the actions
ActionBindings == [move_forward |-> "W", toggle_door |-> "O"]

\* The key is up, as far as the press and release events say
KeyUp == 0 - 1

\* The count of frames since a press event stops at "2 or more"
LaterFrame == 1 + 1

\* it != end && (it->second == PRESSED || it->second == HELD)
IsDown(states, key) == states[key] \in {"PRESSED", "HELD"}

\* Input::isKeyPressed
isKeyPressed(states, previous, key) == IsDown(states, key) /\ ~IsDown(previous, key)

\* Input::isActionTriggered
isActionTriggered(states, previous, action) ==
    IF action \in DOMAIN ActionBindings
    THEN isKeyPressed(states, previous, ActionBindings[action])
    ELSE FALSE

\* Input::Input: the maps are empty; Application::run is about to start
\* its first frame.
InitInput ==
    /\ m_keyStates = [key \in Keys |-> NoEntry]
    /\ m_previousKeyStates = [key \in Keys |-> NoEntry]
    /\ inputPc = "update"
    /\ sincePress = [key \in Keys |-> KeyUp]
    /\ IdleCollision
    /\ IdleModels
    /\ IdleRenderer
    /\ IdleApp
    /\ IdleAnim
    /\ IdleCamera
    /\ IdleController

\* Input::update, called first by Application::processInput: the frame's
\* input processing begins.
InputUpdate ==
    /\ inputPc = "update"
    /\ m_previousKeyStates' = m_keyStates
    /\ inputPc' = "process"
    /\ sincePress' = [key \in Keys |->
                        IF sincePress[key] = KeyUp THEN KeyUp
                        ELSE Min2(sincePress[key] + 1, LaterFrame)]
    /\ UNCHANGED <<m_keyStates, collisionVars, modelVars, rendererVars, appVars, animVars,
                   cameraVars, controllerVars>>

\* The rest of the frame: the input is processed, the physics ticks, the
\* frame is rendered, and pollEvents is entered.
ProcessFrame ==
    /\ inputPc = "process"
    /\ inputPc' = "poll"
    /\ UNCHANGED <<m_keyStates, m_previousKeyStates, sincePress, collisionVars, modelVars,
                   rendererVars, appVars, animVars, cameraVars, controllerVars>>

\* Input::handleKey, called from pollEvents for a key event: a key that is
\* up can be pressed, one that is down can repeat or be released.
HandleKey(key, action) ==
    /\ inputPc = "poll"
    /\ (action = "GLFW_PRESS") = (sincePress[key] = KeyUp)
    /\ m_keyStates' = [m_keyStates EXCEPT ![key] =
                          CASE action = "GLFW_PRESS"   -> "PRESSED"
                            [] action = "GLFW_RELEASE" -> "RELEASED"
                            [] action = "GLFW_REPEAT"  -> "HELD"]
    /\ sincePress' = [sincePress EXCEPT ![key] =
                          CASE action = "GLFW_PRESS"   -> 0
                            [] action = "GLFW_RELEASE" -> KeyUp
                            [] action = "GLFW_REPEAT"  -> @]
    /\ UNCHANGED <<m_previousKeyStates, inputPc, collisionVars, modelVars, rendererVars,
                   appVars, animVars, cameraVars, controllerVars>>

\* pollEvents returns, and the loop of Application::run starts over.
EndPoll ==
    /\ inputPc = "poll"
    /\ inputPc' = "update"
    /\ UNCHANGED <<m_keyStates, m_previousKeyStates, sincePress, collisionVars, modelVars,
                   rendererVars, appVars, animVars, cameraVars, controllerVars>>

NextInput ==
    \/ InputUpdate
    \/ ProcessFrame
    \/ \E key \in Keys, action \in {"GLFW_PRESS", "GLFW_RELEASE", "GLFW_REPEAT"} :
          HandleKey(key, action)
    \/ EndPoll

SpecInput == InitInput /\ [][NextInput]_vars

\* ------------------------------------------------------------------------
\* C24: the frame in which a key counts as just pressed
\* ------------------------------------------------------------------------

\* C24: in the application's frame loop, isKeyPressed(key) and
\* isActionTriggered are true during the input processing of exactly the
\* first frame after the key's press event, and false in later frames
\* while the key stays down.
C24_PressedInFirstFrameOnly ==
    inputPc = "process" =>
        /\ \A key \in Keys :
              sincePress[key] # KeyUp =>
                  (isKeyPressed(m_keyStates, m_previousKeyStates, key) <=> sincePress[key] = 1)
        /\ \A action \in DOMAIN ActionBindings :
              sincePress[ActionBindings[action]] # KeyUp =>
                  (isActionTriggered(m_keyStates, m_previousKeyStates, action)
                      <=> sincePress[ActionBindings[action]] = 1)

\* What holds instead: while a frame's input is processed, no key counts
\* as just pressed.
C24_NeverPressedWhileProcessing ==
    inputPc = "process" =>
        \A key \in Keys : ~isKeyPressed(m_keyStates, m_previousKeyStates, key)


\* ------------------------------------------------------------------------
\* The box-against-box response on its own
\* ------------------------------------------------------------------------

\* The boxes of the documented penetration: a = [(-1,-1,-1),(1,1,1)] and
\* b = [(0.5,-1,-1),(2.5,1,1)]
ExampleA == AABB(Vec(0 - Unit, 0 - Unit, 0 - Unit), Vec(Unit, Unit, Unit))

ExampleB == AABB(Vec(Unit \div 2, 0 - Unit, 0 - Unit), Vec((5 * Unit) \div 2, Unit, Unit))

\* The first boxes of a response: the moving boxes, the documented one,
\* and one whose overlaps with the cube tie along Y and Z
ResponseBoxes == Boxes \cup {ExampleA, AABB(Vec(0, Unit, Unit), Vec(4 * Unit, 3 * Unit, 3 * Unit))}

InitResponse == InitCollisionWorld

\* A call of Collision::testAABBvsAABBResponse
Respond(a, b) ==
    /\ call' = [op |-> "response", box |-> a, pos |-> Zero3, other |-> b]
    /\ ret' = [NoRet EXCEPT !.result = testAABBvsAABBResponse(a, b)]
    /\ UNCHANGED <<m_staticBoxes, modelVars, rendererVars, appVars, animVars, cameraVars,
                   controllerVars, inputVars>>

NextResponse ==
    \E a \in ResponseBoxes, b \in Walls \cup {ExampleB} : Respond(a, b)

SpecResponse == InitResponse /\ [][NextResponse]_vars

\* ------------------------------------------------------------------------
\* C25: the axis, the normal and the depth of a penetration
\* ------------------------------------------------------------------------

\* min(aMax - bMin, bMax - aMin) along axis i
AxisOverlap(a, b, i) ==
    IF a.max[i] - b.min[i] < b.max[i] - a.min[i]
    THEN a.max[i] - b.min[i] ELSE b.max[i] - a.min[i]

\* The first axis, in the order X, Y, Z, with the smallest overlap
FirstSmallestAxis(a, b) ==
    CHOOSE i \in Axes :
        /\ \A j \in Axes : AxisOverlap(a, b, i) <= AxisOverlap(a, b, j)
        /\ \A j \in Axes : j < i => AxisOverlap(a, b, j) > AxisOverlap(a, b, i)

\* C25: for two overlapping valid boxes a and b, testAABBvsAABBResponse
\* reports the smallest of the three per-axis overlaps as penetration, a
\* unit normal along that axis (X before Y before Z on exact ties) whose
\* sign pushes a away from b's centre, and never a negative penetration;
\* for the documented boxes it reports normal (-1,0,0) and penetration 0.5.
C25_SmallestOverlapAxis ==
    (call.op = "response" /\ testAABBvsAABB(call.box, call.other)) =>
        LET a == call.box
            b == call.other
            i == FirstSmallestAxis(a, b)
            towards == (b.min[i] + b.max[i]) - (a.min[i] + a.max[i])
        IN  /\ ret.result.hit
            /\ ret.result.penetration = AxisOverlap(a, b, i)
            /\ ret.result.penetration >= 0
            /\ \E sign \in {0 - 1, 1} :
                  /\ ret.result.normal = AxisNormal(i, sign)
                  /\ sign * towards <= 0
            /\ (a = ExampleA /\ b = ExampleB) =>
                  /\ ret.result.normal = <<0 - 1, 0, 0>>
                  /\ ret.result.penetration = Unit \div 2

\* The overlaps of the two boxes tie along Y and Z and are larger along X:
\* the normal reported is along Y.
C25_Witness ==
    /\ call.op = "response"
    /\ testAABBvsAABB(call.box, call.other)
    /\ AxisOverlap(call.box, call.other, 2) = AxisOverlap(call.box, call.other, 3)
    /\ AxisOverlap(call.box, call.other, 1) > AxisOverlap(call.box, call.other, 2)
    /\ ret.result.normal[2] # 0
    /\ ret.result.penetration > 0


\* ------------------------------------------------------------------------
\* C26: the iterations of resolveCollisions
\* ------------------------------------------------------------------------

\* The sum of the first k pushes of the last resolveCollisions call
RECURSIVE PushSum(_)
PushSum(k) == IF k = 0 THEN Zero3 ELSE VAdd(PushSum(k - 1), ret.pushes[k])

\* The test box of the last resolveCollisions call after k pushes
TestBoxAfter(k) == Translated(call.box, PushSum(k))

\* C26: resolveCollisions performs at most 4 test-and-push iterations and
\* stops at the first iteration whose test reports no hit; when the initial
\* box has no hit it returns currentPos unchanged, and otherwise the
\* returned position differs from currentPos by exactly the sum of the
\* pushes normal * (penetration + 0.001) applied to the test box, so the
\* tracked position and the test box move together.
C26_IterationsAndPushes ==
    call.op = "resolve" =>
        LET n == Len(ret.pushes)
        IN  /\ n <= 4
            /\ \A k \in 1..n :
                  LET result == testAgainstStatic(m_staticBoxes, TestBoxAfter(k - 1))
                  IN  /\ result.hit
                      /\ ret.pushes[k] =
                            VScale(result.normal, result.penetration + Unit \div 1000)
            /\ n < 4 => ~testAgainstStatic(m_staticBoxes, TestBoxAfter(n)).hit
            /\ ~testAgainstStatic(m_staticBoxes, call.box).hit => ret.pos = call.pos
            /\ ret.pos = VAdd(call.pos, PushSum(n))
            /\ ret.testBox = TestBoxAfter(n)

\* A call whose loop pushed the box to and fro between two walls and was
\* ended by the iteration limit with the box still in a wall.
C26_Witness ==
    /\ call.op = "resolve"
    /\ Len(ret.pushes) = 4
    /\ ret.pushes[1] # ret.pushes[2]
    /\ ret.pos # call.pos
    /\ testAgainstStatic(m_staticBoxes, ret.testBox).hit



\* ------------------------------------------------------------------------
\* C28: the vectors of the view matrix and the angles
\* ------------------------------------------------------------------------

\* The front vector getViewMatrix reads is the one updateCameraVectors
\* derives from the current yaw and pitch (right and up follow from it).
VectorsFollowAngles == cam.m_front = FrontOf(cam.m_yaw, cam.m_pitch)

\* C28: whenever the camera is in FREE_ROAM or DRIVER_SEAT mode, the
\* front / right / up vectors read by getViewMatrix are the ones derived
\* from the current yaw and pitch.
C28_VectorsFollowAngles ==
    cam.m_mode \in {"FREE_ROAM", "DRIVER_SEAT"} => VectorsFollowAngles

\* The part of C28 that holds: in DRIVER_SEAT mode, and in FREE_ROAM mode
\* once an operation that recomputes the vectors has been called in it.
C28_VectorsFollowAnglesOnceRecomputed ==
    /\ cam.m_mode = "DRIVER_SEAT" => VectorsFollowAngles
    /\ (cam.m_mode = "FREE_ROAM"
            /\ camCall.op \in {"processMouseMovement", "setYaw", "setPitch"})
        => VectorsFollowAngles


\* ------------------------------------------------------------------------
\* C29: the fixed-timestep loop of a frame
\* ------------------------------------------------------------------------

\* What a step of Application::run inside the fixed-timestep loop does to
\* the position in the frame: the body runs once more, or the loop is left.
LoopStep ==
    /\ pc = "physics"
    /\ \/ m_physicsAccumulator >= FIXED_TIMESTEP /\ ticks' = ticks + 1 /\ pc' = pc
       \/ m_physicsAccumulator < FIXED_TIMESTEP /\ ticks' = ticks /\ pc' = "frame"

\* Application::run does not pause inside a frame: a step of the
\* fixed-timestep loop that can be taken is taken.
FairSpecApplication == SpecApplication /\ WF_<<pc, ticks>>(LoopStep)

\* C29: in every frame of Application::run the fixed-timestep loop ends
\* after at most 6 ticks (frame delta capped at 0.1 s, step 1/60 s), and
\* once it has ended the accumulator satisfies 0 <= accumulator < step,
\* whatever the sequence of raw non-negative frame times.
C29_DrainLoopBounded ==
    /\ [](ticks <= 6)
    /\ [](m_physicsAccumulator >= 0)
    /\ [](pc = "frame" => m_physicsAccumulator < Second \div 60)
    /\ (pc = "physics" ~> pc = "frame")

\* A frame whose loop ran six times and has ended, the time of an earlier
\* short frame being left over.
C29_Witness ==
    /\ pc = "frame"
    /\ frame = 2
    /\ ticks = 6
    /\ m_physicsAccumulator > 0
    /\ m_physicsAccumulator < FIXED_TIMESTEP


\* ------------------------------------------------------------------------
\* C30: a completion callback that restarts the animation
\* ------------------------------------------------------------------------

\* The update call that ran the completion callback has returned, and the
\* callback called reset or reverse on the animation.
ReturnedFromRestartingCallback == animCall.op = "updateReturns" /\ invoked = 0

\* C30: if the completion callback calls reverse() or reset() on the
\* animation that is completing, then when that update call returns
\* isComplete() is false, the elapsed time is 0 and getValue() equals the
\* (new) start value.
C30_RestartedAtStartValue ==
    ReturnedFromRestartingCallback =>
        /\ ~anim.m_complete
        /\ anim.m_elapsed = 0
        /\ anim.m_currentValue = anim.m_startValue
        /\ animCall.ret = anim.m_startValue

\* What holds instead: the update call interpolates at t = 1 after the
\* callback, so the animation is restarted but stands at its (new) end
\* value, which the call returns.
C30_RestartedAtEndValue ==
    ReturnedFromRestartingCallback =>
        /\ ~anim.m_complete
        /\ anim.m_elapsed = 0
        /\ anim.m_currentValue = anim.m_endValue
        /\ animCall.ret = anim.m_endValue

=============================================================================
